---- MODULE Spec2Model ----
(***************************************************************************)
(* Model of the calendar -> document-store / chat-platform synchroniser    *)
(* (services/webhook/webhook.py) and of the chat-platform callbacks        *)
(* (services/bot/bot.py).                                                  *)
(*                                                                         *)
(* Specifications:                                                         *)
(*   Spec       the HTTP trigger surface: concurrent request threads going *)
(*              through the duplicate guard and run_sync_guarded           *)
(*   SpecWebhook  webhook deliveries carrying several keys, clock standing *)
(*              still                                                      *)
(*   SpecDedup  register_message_id / load_recent_message_ids alone        *)
(*   SpecPoll   sync_calendar's cursor handling: load, list, save          *)
(*   SpecBot    the bot's scheduled-event callbacks                        *)
(*   SpecRecon  upsert_event / sync_to_discord on one calendar event       *)
(*   SpecNotify push notifications served by fairly scheduled threads      *)
(*   SpecRestart the reconciler across restarts that lose the map files    *)
(*   SpecTimes  parse_google_event_times over its inputs                   *)
(*   SpecFields the text fields written to the chat platform and the       *)
(*              document store                                             *)
(*   SpecMalformed  the reconciler on an event without a start             *)
(*   SpecUnshared  the reconciler when a mapped page cannot be fetched     *)
(*   SpecLocked  request threads whose passes write the correlation maps   *)
(*   SpecRace   on_scheduled_event_create interleaved with the pass for    *)
(*              the calendar event it inserts                              *)
(*   SpecLoop   a member's edit and the writes the two services answer it   *)
(*              with, under weak fairness of the handlers                  *)
(*   SpecSkip   SpecLocked with the cursor handling of the pass            *)
(*   SpecRescan  the reconciler across a restart that loses the map files  *)
(*   SpecRetention  the reconciler, the retention sweep and a lost map     *)
(*   SpecSweep  the bot's retention sweep delete_past_events               *)
(***************************************************************************)
EXTENDS Integers, Sequences, FiniteSets, TLC

None == "None"                      \* Python's None, among strings
NoKey == <<>>                       \* None, among dedupe keys and result tuples
NoTime == -1                        \* "not yet", among clock values

(***************************************************************************)
(* Bounds of the model                                                     *)
(***************************************************************************)
MaxClock == 4                       \* last value of time.time() (seconds)
DedupeCapacity == 2                 \* deque maxlen, scaled down from max(100, DEDUPE_MAX_IDS)
MaxRegistrations == 5               \* length of the registration history kept by SpecDedup
MaxTicks == 3                       \* clock advances in SpecPoll
MaxReconNow == 2                    \* last value of the reconciler's clock (hours)
MaxPages == 2                       \* pages the document store can hold
MaxGuildEvents == 2                 \* scheduled events ever created in the guild
MaxRestarts == 1                    \* restarts of the service that lose the correlation maps
MaxHour == 3                        \* latest dateTime of an event part (hours)
MaxDay == 1                         \* latest date of an all-day event part (days)
MaxLen == 5                         \* longest summary, description or location of an event (characters)
MaxSweepPages == 2                  \* pages a data base holds when the retention sweep runs

(***************************************************************************)
(* Program constants                                                       *)
(***************************************************************************)
SYNC_COOLDOWN_SECONDS == 2
SAFETY_MARGIN_MINUTES == 2          \* timedelta(minutes=2)
LOOKBACK_MINUTES == 43200           \* timedelta(days=30)

Threads == {"t1", "t2"}              \* concurrent request threads
MsgNums == 1..(DedupeCapacity + 1)   \* X-Goog-Message-Number values registered in SpecDedup
WebhookMsgNums == {1, 2, 3}          \* X-Goog-Message-Number values delivered in SpecWebhook
Channels == {"ch"}                   \* X-Goog-Channel-ID values

\* gcal_webhook: dedupe_key = f"goog:{goog_channel}:{goog_message_num}"
DedupeKey(ch, num) == <<"goog", ch, num>>
Keys == {DedupeKey(c, n) : c \in Channels, n \in MsgNums}
WebhookKeys == {DedupeKey(c, n) : c \in Channels, n \in WebhookMsgNums}
CoordKeys == {DedupeKey("ch", 1)}

VARIABLES
    \* ---- duplicate guard (module globals and state file)
    processed_message_ids,          \* _processed_message_ids (deque, oldest first)
    processed_message_set,          \* _processed_message_set
    dedupeFile,                     \* content of DEDUPE_STATE_FILE ("ids")
    stateDirWritable,               \* writes below STATE_DIR succeed
    regHistory,                     \* history: tokens newly registered, in order
    \* ---- run coordinator
    sync_lock,                      \* _sync_lock is held
    sync_last_run_epoch,            \* _sync_last_run_epoch
    clock,                          \* time.time()
    pc,                             \* position of each request thread
    source,                         \* "webhook" / "manual" / None per thread
    key,                            \* dedupe key of the request (NoKey: headers absent)
    result,                         \* (synced, reason) returned by run_sync_guarded
    lastStart,                      \* history: clock at the last pass start
    seenAtCheck,                    \* history: the key was registered when checked
    firstDelivery,                  \* history: no earlier request's key check carried the key
    delivered,                      \* history: keys checked by the duplicate guard so far
    unprocessed,                    \* history: a notified calendar change no listing has seen yet
    \* ---- change poller (times in minutes)
    now,                            \* datetime.now(timezone.utc)
    ticks,                          \* number of clock advances so far
    calendar,                       \* the calendar: event id -> [updated, status]
    sync_state,                     \* "updated_min" in SYNC_STATE_FILE (NoTime: none)
    pollPc,                         \* position inside sync_calendar
    updated_min,                    \* the cursor loaded at the start of the pass
    events,                         \* the batch returned by list_updated_events
    fellBack,                       \* the listing was answered by the full listing
    listFailed,                     \* the listing call raised and list_updated_events returned []
    upserted,                       \* history: sync_calendar's loop, [id, outcome] per upsert_event call
    \* ---- bot callbacks
    botPc,                          \* "off" until the module has started
    bot_user,                       \* bot.user.id (NoId until login)
    NOTION_EVENT_EXTERNAL_DB_ID,    \* the external data base is configured
    discordEvents,                  \* scheduled events of the guild
    botInternalPages,               \* pages of the internal data base: [mid, gid]
    botExternalPages,               \* pages of the external data base: [mid, gid]; gid is never read
    botCalendar,                    \* calendar events inserted by the bot
    botLast,                        \* history: the callback that ran last
    botCalls,                       \* history: collaborator calls of that callback
    createPc,                       \* position of on_scheduled_event_create for a member's event
    pending,                        \* what awaits the two services for the member's event
    \* ---- reconciler (times in hours)
    reconPc,                        \* "off" until the module has read its environment
    config,                         \* external data base / chat sync / marker mode enabled
    reconNow,                       \* datetime.now(timezone.utc)
    gevent,                         \* the calendar event: [status, end_dt, start]
    notionPages,                    \* pages of both data bases, page id = index
    guildEvents,                    \* scheduled events of the guild, in order of creation
    gcal_notion_map,                \* _gcal_notion_map[scope][GEventId]
    gcal_discord_map,               \* _gcal_discord_map[GEventId]
    reconLast,                      \* history: what the last upsert_event resolved, and sync_to_discord returned
    reconCalls,                     \* history: collaborator calls of the last upsert_event
    cleanRuns,                      \* history: runs without failure since the last edit (up to 2)
    lostMaps,                       \* history: the maps a restart has just lost, until the next run
    restarts,                       \* history: restarts that lost the maps
    \* ---- functions checked on their own
    timesIn,                        \* the event handed to parse_google_event_times: [start, end] parts
    timesOut,                       \* what it returned: [start_dt, end_dt]
    clipIn,                         \* lengths of the event's summary, description, location; marker mode
    discordPayload,                 \* lengths of the fields build_discord_payload returned
    notionProps,                    \* lengths of the fields upsert_event hands to the document store
    sweepIn,                        \* the data bases and the clock when delete_past_events runs
    sweepOut                        \* the pages it archived, and whether it raised

dedupVars == <<processed_message_ids, processed_message_set, dedupeFile,
               stateDirWritable, regHistory>>
coordVars == <<sync_lock, sync_last_run_epoch, clock, pc, source, key, result,
               lastStart, seenAtCheck, firstDelivery, delivered>>
pollVars == <<now, ticks, calendar, sync_state, pollPc, updated_min, events, fellBack,
              listFailed, upserted>>
botVars == <<botPc, bot_user, NOTION_EVENT_EXTERNAL_DB_ID, discordEvents, botInternalPages,
            botExternalPages, botCalendar, botLast, botCalls, createPc, pending>>
reconVars == <<reconPc, config, reconNow, gevent, notionPages, guildEvents, gcal_notion_map,
              gcal_discord_map, reconLast, reconCalls, cleanRuns, lostMaps, restarts>>
notifyVars == <<unprocessed>>
pureVars == <<timesIn, timesOut, clipIn, discordPayload, notionProps, sweepIn, sweepOut>>
vars == <<dedupVars, coordVars, notifyVars, pollVars, botVars, reconVars, pureVars>>

\* what the actions of one part leave alone
outsideCoord == <<notifyVars, pollVars, botVars, reconVars, pureVars>>                    \* besides dedupVars, named per action
outsideDedup == <<coordVars, notifyVars, pollVars, botVars, reconVars, pureVars>>
outsideBot == <<dedupVars, coordVars, notifyVars, pollVars, reconVars, pureVars>>
outsideRecon == <<dedupVars, coordVars, notifyVars, pollVars, botVars, pureVars>>
outsideNotify == <<pollVars, botVars, reconVars, pureVars>>
outsidePoll == <<dedupVars, coordVars, notifyVars, botVars, reconVars, pureVars>>
outsidePure == <<dedupVars, coordVars, notifyVars, pollVars, botVars, reconVars>>

(***************************************************************************)
(* Duplicate guard: register_message_id                                    *)
(***************************************************************************)
SeqToSet(s) == {s[i] : i \in 1..Len(s)}

\* deque(maxlen=...).append: a full deque drops its leftmost element
DequeAppend(dq, x) ==
    IF Len(dq) = DedupeCapacity THEN Append(Tail(dq), x) ELSE Append(dq, x)

\* register_message_id's return value: True = already registered
AlreadyRegistered_Inverted(mid, set) == mid # NoKey /\ mid \notin set
AlreadyRegistered(mid, set) == mid # NoKey /\ mid \in set

\* the set after a new registration: the oldest id is discarded when the deque is full
SetAfterRegister_NoEvict(mid, dq, set) == set \cup {mid}
SetAfterRegister(mid, dq, set) ==
    (IF Len(dq) = DedupeCapacity THEN set \ {dq[1]} ELSE set) \cup {mid}

\* save_recent_message_ids: a failing write is logged and swallowed
SaveRecentMessageIds ==
    /\ dedupeFile' = IF stateDirWritable THEN processed_message_ids' ELSE dedupeFile
    /\ UNCHANGED stateDirWritable

\* the state change of a registration that was not a duplicate (lines 187-192)
RegisterNew(mid) ==
    /\ processed_message_set' =
           SetAfterRegister(mid, processed_message_ids, processed_message_set)
    /\ processed_message_ids' = DequeAppend(processed_message_ids, mid)
    /\ SaveRecentMessageIds

\* register_message_id as one call (single-threaded use)
Register(mid) ==
    /\ Len(regHistory) < MaxRegistrations
    /\ IF mid = NoKey \/ AlreadyRegistered(mid, processed_message_set)
       THEN UNCHANGED dedupVars
       ELSE /\ RegisterNew(mid)
            /\ regHistory' = Append(regHistory, mid)
    /\ UNCHANGED outsideDedup

\* load_recent_message_ids over a file content, applied to the current globals
RECURSIVE LoadIds(_, _, _)
LoadIds(ids, dq, set) ==
    IF ids = <<>> THEN <<dq, set>>
    ELSE IF Head(ids) \in set
         THEN LoadIds(Tail(ids), dq, set)
         ELSE LoadIds(Tail(ids), DequeAppend(dq, Head(ids)), set \cup {Head(ids)})

LastN(s, n) == IF Len(s) <= n THEN s ELSE SubSeq(s, Len(s) - n + 1, Len(s))

\* process restart: the module globals are rebuilt from DEDUPE_STATE_FILE
Restart ==
    /\ LET loaded == LoadIds(LastN(dedupeFile, DedupeCapacity), <<>>, {})
       IN /\ processed_message_ids' = loaded[1]
          /\ processed_message_set' = loaded[2]
    /\ regHistory' = <<>>
    /\ UNCHANGED <<dedupeFile, stateDirWritable, outsideDedup>>

\* the environment: STATE_DIR becomes unwritable (disk full, permissions) or writable again
DiskChanges ==
    /\ stateDirWritable' = ~stateDirWritable
    /\ UNCHANGED <<processed_message_ids, processed_message_set, dedupeFile, regHistory,
                   outsideDedup>>

InitDedup ==
    /\ processed_message_ids = <<>>
    /\ processed_message_set = {}
    /\ dedupeFile = <<>>
    /\ stateDirWritable \in BOOLEAN
    /\ regHistory = <<>>

(***************************************************************************)
(* Run coordinator and HTTP trigger surface                                *)
(***************************************************************************)
InitCoord ==
    /\ sync_lock = FALSE
    /\ sync_last_run_epoch = 0
    /\ clock = SYNC_COOLDOWN_SECONDS      \* the epoch clock is far beyond 0.0
    /\ pc = [t \in Threads |-> "idle"]
    /\ source = [t \in Threads |-> None]
    /\ key = [t \in Threads |-> NoKey]
    /\ result = [t \in Threads |-> NoKey]
    /\ lastStart = NoTime
    /\ seenAtCheck = [t \in Threads |-> FALSE]
    /\ firstDelivery = [t \in Threads |-> FALSE]
    /\ delivered = {}
    /\ unprocessed = FALSE

Tick ==
    /\ clock < MaxClock
    /\ clock' = clock + 1
    /\ UNCHANGED <<outsideCoord, dedupVars, sync_lock, sync_last_run_epoch, pc,
                   source, key, result, lastStart, seenAtCheck, firstDelivery,
                   delivered>>

\* POST /gcal/webhook arrives (headers read, lines 1332-1335), its key drawn from K
WebhookArrives(t, K) ==
    /\ pc[t] = "idle"
    /\ \E k \in K \cup {NoKey} :
          /\ key' = [key EXCEPT ![t] = k]
          /\ pc' = [pc EXCEPT ![t] = IF k = NoKey THEN "guard" ELSE "dedupe_check"]
    /\ source' = [source EXCEPT ![t] = "webhook"]
    /\ result' = [result EXCEPT ![t] = NoKey]
    /\ seenAtCheck' = [seenAtCheck EXCEPT ![t] = FALSE]
    /\ firstDelivery' = [firstDelivery EXCEPT ![t] = FALSE]
    /\ UNCHANGED <<outsideCoord, dedupVars, sync_lock, sync_last_run_epoch, clock,
                   lastStart, delivered>>

WebhookRequest(t) == WebhookArrives(t, CoordKeys)

WebhookDelivery(t) == WebhookArrives(t, WebhookKeys)

\* the keys of push notifications, and the lowest message number not yet used
NotifyKeys == {DedupeKey("ch", n) : n \in 1..2}
FreshKeys == {k \in NotifyKeys : k \notin delivered /\ \A u \in Threads : key[u] # k}
NextFreshKey == CHOOSE k \in FreshKeys : \A j \in FreshKeys : k[3] <= j[3]

\* somebody changes the calendar and the calendar service pushes a
\* notification with the next message number to POST /gcal/webhook
ChangeNotified(t) ==
    /\ pc[t] = "idle"
    /\ FreshKeys # {}
    /\ unprocessed' = TRUE
    /\ key' = [key EXCEPT ![t] = NextFreshKey]
    /\ pc' = [pc EXCEPT ![t] = "dedupe_check"]
    /\ source' = [source EXCEPT ![t] = "webhook"]
    /\ result' = [result EXCEPT ![t] = NoKey]
    /\ seenAtCheck' = [seenAtCheck EXCEPT ![t] = FALSE]
    /\ firstDelivery' = [firstDelivery EXCEPT ![t] = FALSE]
    /\ UNCHANGED <<outsideNotify, dedupVars, sync_lock, sync_last_run_epoch, clock,
                   lastStart, delivered>>

\* GET|POST /gcal/sync arrives
ManualRequest(t) ==
    /\ pc[t] = "idle"
    /\ pc' = [pc EXCEPT ![t] = "guard"]
    /\ source' = [source EXCEPT ![t] = "manual"]
    /\ key' = [key EXCEPT ![t] = NoKey]
    /\ result' = [result EXCEPT ![t] = NoKey]
    /\ seenAtCheck' = [seenAtCheck EXCEPT ![t] = FALSE]
    /\ firstDelivery' = [firstDelivery EXCEPT ![t] = FALSE]
    /\ UNCHANGED <<outsideCoord, dedupVars, sync_lock, sync_last_run_epoch, clock,
                   lastStart, delivered>>

\* register_message_id lines 183-186: the membership test
DedupeCheck(t) ==
    /\ pc[t] = "dedupe_check"
    /\ seenAtCheck' = [seenAtCheck EXCEPT ![t] = key[t] \in processed_message_set]
    /\ firstDelivery' = [firstDelivery EXCEPT ![t] = key[t] \notin delivered]
    /\ delivered' = delivered \cup {key[t]}
    /\ IF AlreadyRegistered(key[t], processed_message_set)
       THEN /\ pc' = [pc EXCEPT ![t] = "respond"]
            /\ result' = [result EXCEPT ![t] = <<TRUE, "duplicate">>]
       ELSE /\ pc' = [pc EXCEPT ![t] = "dedupe_add"]
            /\ UNCHANGED result
    /\ UNCHANGED <<outsideCoord, dedupVars, sync_lock, sync_last_run_epoch, clock,
                   source, key, lastStart>>

\* register_message_id lines 187-193: evict, append, add, save
DedupeAdd(t) ==
    /\ pc[t] = "dedupe_add"
    /\ RegisterNew(key[t])
    /\ pc' = [pc EXCEPT ![t] = "guard"]
    /\ key' = [key EXCEPT ![t] = NoKey]                \* dedupe_key is not read again
    /\ firstDelivery' = [firstDelivery EXCEPT ![t] = FALSE]
    /\ UNCHANGED <<outsideCoord, regHistory, sync_lock, sync_last_run_epoch, clock,
                   source, result, lastStart, seenAtCheck, delivered>>

\* run_sync_guarded line 1296: now - _sync_last_run_epoch < max(0.0, SYNC_COOLDOWN_SECONDS)
Max2(a, b) == IF a >= b THEN a ELSE b
InCooldown(tnow, last) == tnow - last < Max2(0, SYNC_COOLDOWN_SECONDS)

\* the cooldown skip forgetting the last run
GuardCooldown_ForgetsLastRun(t) ==
    /\ pc[t] = "guard"
    /\ IF InCooldown(clock, sync_last_run_epoch)
       THEN /\ pc' = [pc EXCEPT ![t] = "respond"]
            /\ result' = [result EXCEPT ![t] = <<TRUE, "cooldown">>]
            /\ sync_last_run_epoch' = 0
       ELSE /\ pc' = [pc EXCEPT ![t] = "acquire"]
            /\ UNCHANGED <<result, sync_last_run_epoch>>
    /\ UNCHANGED <<outsideCoord, dedupVars, sync_lock, clock,
                   source, key, lastStart, seenAtCheck, firstDelivery, delivered>>

\* run_sync_guarded lines 1295-1302
GuardCooldown(t) ==
    /\ pc[t] = "guard"
    /\ IF InCooldown(clock, sync_last_run_epoch)
       THEN /\ pc' = [pc EXCEPT ![t] = "respond"]
            /\ result' = [result EXCEPT ![t] = <<TRUE, "cooldown">>]
       ELSE /\ pc' = [pc EXCEPT ![t] = "acquire"]
            /\ UNCHANGED result
    /\ UNCHANGED <<outsideCoord, dedupVars, sync_lock, sync_last_run_epoch, clock,
                   source, key, lastStart, seenAtCheck, firstDelivery, delivered>>

\* _sync_lock.acquire(blocking=False): succeeds iff the lock is free
TryAcquire_IgnoreLock(held) == TRUE
TryAcquire(held) == ~held

\* run_sync_guarded lines 1304-1309
GuardAcquire(t) ==
    /\ pc[t] = "acquire"
    /\ IF TryAcquire(sync_lock)
       THEN /\ sync_lock' = TRUE
            /\ pc' = [pc EXCEPT ![t] = "sync_calendar"]
            /\ lastStart' = clock
            /\ UNCHANGED result
       ELSE /\ pc' = [pc EXCEPT ![t] = "respond"]
            /\ result' = [result EXCEPT ![t] = <<TRUE, "in_progress">>]
            /\ UNCHANGED <<sync_lock, lastStart>>
    /\ UNCHANGED <<outsideCoord, dedupVars, sync_last_run_epoch, clock, source,
                   key, seenAtCheck, firstDelivery, delivered>>

\* run_sync_guarded line 1310: sync_calendar() returns True/False or raises
\* (save_sync_state has no exception handler)
SyncCalendarRuns(t) ==
    /\ pc[t] = "sync_calendar"
    /\ \E outcome \in {"ok", "had_error", "raise"} :
          IF outcome = "raise"
          THEN /\ pc' = [pc EXCEPT ![t] = "release"]
               /\ result' = [result EXCEPT ![t] = <<FALSE, "raised">>]
          ELSE /\ pc' = [pc EXCEPT ![t] = "set_last_run"]
               /\ result' = [result EXCEPT ![t] = <<outcome = "ok", "done">>]
    /\ unprocessed' = FALSE             \* the pass has listed the calendar
    /\ UNCHANGED <<outsideNotify, dedupVars, sync_lock, sync_last_run_epoch, clock,
                   source, key, lastStart, seenAtCheck, firstDelivery, delivered>>

\* run_sync_guarded line 1311: _sync_last_run_epoch = time.time()
SetLastRun(t) ==
    /\ pc[t] = "set_last_run"
    /\ sync_last_run_epoch' = clock
    /\ pc' = [pc EXCEPT ![t] = "release"]
    /\ UNCHANGED <<outsideCoord, dedupVars, sync_lock, clock, source, key, result,
                   lastStart, seenAtCheck, firstDelivery, delivered>>

\* the lock released only on the path where sync_calendar returned
ReleaseLock_NotInFinally(t) ==
    /\ pc[t] = "release"
    /\ sync_lock' = (result[t][2] = "raised")
    /\ pc' = [pc EXCEPT ![t] = "respond"]
    /\ UNCHANGED <<outsideCoord, dedupVars, sync_last_run_epoch, clock, source,
                   key, result, lastStart, seenAtCheck, firstDelivery, delivered>>

\* run_sync_guarded lines 1313-1314: finally: _sync_lock.release()
ReleaseLock(t) ==
    /\ pc[t] = "release"
    /\ sync_lock' = FALSE
    /\ pc' = [pc EXCEPT ![t] = "respond"]
    /\ UNCHANGED <<outsideCoord, dedupVars, sync_last_run_epoch, clock, source,
                   key, result, lastStart, seenAtCheck, firstDelivery, delivered>>

\* the HTTP status when only a finished pass counts as success
StatusOf_SkipIsFailure(src, res) ==
    IF res[2] = "raised" THEN 500
    ELSE IF src = "webhook"
         THEN IF res[2] = "done" /\ res[1] THEN 204 ELSE 500
         ELSE IF res[2] = "done" /\ res[1] THEN 200 ELSE 500

\* the HTTP status answered: gcal_webhook lines 1337-1352 and manual_sync line
\* 1365; an exception that leaves the view function is answered 500 by the framework
StatusOf(src, res) ==
    IF res[2] = "raised" THEN 500
    ELSE IF src = "webhook"
         THEN IF res[2] # "done" THEN 204
              ELSE IF ~res[1] THEN 500 ELSE 204
         ELSE IF res[1] THEN 200 ELSE 500

\* the view function returns: the thread answers StatusOf(source[t], result[t])
Respond(t) ==
    /\ pc[t] = "respond"
    /\ pc' = [pc EXCEPT ![t] = "idle"]
    /\ source' = [source EXCEPT ![t] = None]
    /\ key' = [key EXCEPT ![t] = NoKey]
    /\ result' = [result EXCEPT ![t] = NoKey]
    /\ seenAtCheck' = [seenAtCheck EXCEPT ![t] = FALSE]
    /\ firstDelivery' = [firstDelivery EXCEPT ![t] = FALSE]
    /\ UNCHANGED <<outsideCoord, dedupVars, sync_lock, sync_last_run_epoch, clock,
                   lastStart, delivered>>

(***************************************************************************)
(* Change poller: sync_calendar's cursor (times in minutes)                *)
(***************************************************************************)
GIds == {"g1", "g2"}                \* calendar event ids
GIdOrder == <<"g1", "g2">>          \* the order in which a listing returns them

Absent == [updated |-> NoTime, status |-> None]

InitPoll ==
    /\ now = 0
    /\ ticks = 0
    /\ calendar = [g \in GIds |-> Absent]
    /\ sync_state = NoTime
    /\ pollPc = "idle"
    /\ updated_min = NoTime
    /\ events = <<>>
    /\ fellBack = FALSE
    /\ listFailed = FALSE
    /\ upserted = <<>>

\* time passes: a minute, or a long idle period
PollTick ==
    /\ ticks < MaxTicks
    /\ \E d \in {1, LOOKBACK_MINUTES} : now' = now + d
    /\ ticks' = ticks + 1
    /\ UNCHANGED <<outsidePoll, calendar, sync_state, pollPc, updated_min, events,
                   fellBack, listFailed, upserted>>

\* somebody creates, edits or cancels a calendar event: the calendar stamps "updated"
CalendarEdit(g) ==
    /\ \E st \in {"confirmed", "cancelled"} :
          calendar' = [calendar EXCEPT ![g] = [updated |-> now, status |-> st]]
    /\ UNCHANGED <<outsidePoll, now, ticks, sync_state, pollPc, updated_min, events,
                   fellBack, listFailed, upserted>>

\* list_updated_events lines 454-460: the lower bound sent as updatedMin
EffectiveUpdatedMin_WideRewind(um) ==
    IF um = NoTime THEN now - LOOKBACK_MINUTES ELSE um - LOOKBACK_MINUTES
EffectiveUpdatedMin(um) ==
    IF um = NoTime THEN now - LOOKBACK_MINUTES ELSE um - SAFETY_MARGIN_MINUTES

\* events().list(updatedMin=lo, showDeleted=True): the events updated at or after lo
ItemOf(g) == [id |-> g, updated |-> calendar[g].updated, status |-> calendar[g].status]
Listed_DropsCancelled(lo) ==
    LET hit(g) == /\ calendar[g].updated # NoTime /\ calendar[g].updated >= lo
                  /\ calendar[g].status # "cancelled"
    IN [i \in 1..Len(SelectSeq(GIdOrder, hit)) |-> ItemOf(SelectSeq(GIdOrder, hit)[i])]
Listed(lo) ==
    LET hit(g) == calendar[g].updated # NoTime /\ calendar[g].updated >= lo
    IN [i \in 1..Len(SelectSeq(GIdOrder, hit)) |-> ItemOf(SelectSeq(GIdOrder, hit)[i])]

\* fetch_all_without_updated_min: every event, cancelled ones included
ListedAll ==
    LET hit(g) == calendar[g].updated # NoTime
    IN [i \in 1..Len(SelectSeq(GIdOrder, hit)) |-> ItemOf(SelectSeq(GIdOrder, hit)[i])]

\* the calendar answers 410 updatedMinTooLongAgo only for a bound older than
\* the window it keeps; the first-run lookback lies within that window
MayBeTooLongAgo(lo) == now - lo > LOOKBACK_MINUTES

\* what one upsert_event call does to sync_calendar: it returns (also after a
\* store answered with an error, which the helpers log), or an exception such
\* as a request timeout escapes it
UpsertOutcomes == {"ok", "raise"}

\* sync_calendar lines 1255-1261: the loop over the batch, try/except inside
RECURSIVE UpsertLoop(_, _)
UpsertLoop_StopsAtRaise(evs, outs) ==
    LET raised == {i \in 1..Len(evs) : outs[i] = "raise"}
        last == IF raised = {} THEN Len(evs)
                ELSE CHOOSE i \in raised : \A j \in raised : i <= j
    IN [i \in 1..last |-> [id |-> evs[i].id, outcome |-> outs[i]]]
UpsertLoop(evs, outs) ==
    IF evs = <<>> THEN <<>>
    ELSE <<[id |-> Head(evs).id, outcome |-> Head(outs)]>>
             \o UpsertLoop(Tail(evs), Tail(outs))

\* list_updated_events lines 487-515: what the call returns for each way the
\* listing can end; any exception but an expired cursor is logged and gives []
ListingResult_FallbackSkipsCancelled(outcome, um) ==
    CASE outcome = "ok" -> Listed(EffectiveUpdatedMin(um))
      [] outcome = "gone" -> SelectSeq(ListedAll, LAMBDA e : e.status # "cancelled")
      [] OTHER -> <<>>
ListingResult(outcome, um) ==
    CASE outcome = "ok" -> Listed(EffectiveUpdatedMin(um))
      [] outcome = "gone" -> ListedAll
      [] OTHER -> <<>>

\* sync_calendar lines 1249-1261: load the cursor, list the changed events,
\* hand each to upsert_event
SyncList ==
    /\ pollPc = "idle"
    /\ updated_min' = sync_state
    /\ \E outcome \in {"ok", "gone", "gone_retry_failed", "failed"} :
          /\ outcome \in {"gone", "gone_retry_failed"}
                => MayBeTooLongAgo(EffectiveUpdatedMin(sync_state))
          /\ events' = ListingResult(outcome, sync_state)
          /\ fellBack' = (outcome = "gone")
          /\ listFailed' = (outcome \in {"gone_retry_failed", "failed"})
    /\ \E outs \in [1..Len(events') -> UpsertOutcomes] :
          upserted' = UpsertLoop(events', outs)
    /\ pollPc' = "listed"
    /\ UNCHANGED <<outsidePoll, now, ticks, calendar, sync_state>>

\* sync_calendar lines 1263-1269: the greatest "updated" of the batch, else now
RECURSIVE MaxUpdated(_)
MaxUpdated(evs) ==
    IF evs = <<>> THEN NoTime
    ELSE LET rest == MaxUpdated(Tail(evs))
         IN IF Head(evs).updated >= rest THEN Head(evs).updated ELSE rest

NextCursor(evs) == IF evs # <<>> THEN MaxUpdated(evs) ELSE now

\* sync_calendar lines 1263-1277: save the next cursor; save_sync_state raises
\* when the state file cannot be written, and the pass does not return
SyncSave_NotSaved ==
    /\ pollPc = "listed"
    /\ pollPc' = "idle"
    /\ updated_min' = NoTime
    /\ events' = <<>>
    /\ fellBack' = FALSE
    /\ listFailed' = FALSE
    /\ upserted' = <<>>
    /\ UNCHANGED <<outsidePoll, now, ticks, calendar, sync_state>>

\* sync_calendar line 1277 and run_sync_guarded lines 1308-1312: what the
\* guarded run hands to the view function when the pass ends in this state
had_error == \E i \in 1..Len(upserted) : upserted[i].outcome = "raise"
SyncResult == IF stateDirWritable THEN <<~had_error, "done">> ELSE <<FALSE, "raised">>

SyncSave ==
    /\ pollPc = "listed"
    /\ sync_state' = IF stateDirWritable THEN NextCursor(events) ELSE sync_state
    /\ pollPc' = "idle"
    /\ updated_min' = NoTime
    /\ events' = <<>>
    /\ fellBack' = FALSE
    /\ listFailed' = FALSE
    /\ upserted' = <<>>
    /\ UNCHANGED <<outsidePoll, now, ticks, calendar>>

(***************************************************************************)
(* Reconciler: upsert_event and sync_to_discord (times in hours)           *)
(***************************************************************************)
GEventId == "g1"                    \* event.get("id")
EventStart == 0                     \* start.dateTime of the event
EndChoices == {NoTime, 3}           \* end.dateTime of the event (NoTime: absent)
NoPageId == 0                       \* None, among page ids
PageName == <<"p1", "p2", "p3", "p4", "p5", "p6", "p7", "p8">>    \* page ids, in order of creation
DiscordIds == <<"d1", "d2", "d3", "d4">>        \* scheduled event ids, in order of creation

\* collaborator calls that can fail; at most one call kind fails in one run
Faults == {"get_internal", "query_internal", "get_external", "query_external",
           "archive_internal", "archive_external", "update_internal",
           "create_internal", "update_external", "create_external",
           "discord.list", "discord.delete", "discord.update", "discord.create",
           "message_id_internal", "message_id_external"}
NoFault == "none"

Call(op, target) == [op |-> op, target |-> target]

\* parse_google_event_times: the end of an event that starts at `start`
ParseEnd_NoSynthesis(start, end) ==
    IF end = NoTime THEN start ELSE end
ParseEnd(start, end) ==
    IF end = NoTime \/ end <= start THEN start + 1 ELSE end

PageIds == 1..Len(notionPages)

\* results[0] of a data base query (archived pages are not listed); the
\* oldest page stands for the first result
FirstOf(S) == IF S = {} THEN NoPageId ELSE CHOOSE p \in S : \A q \in S : p <= q

notion_find_by_google_event_id(db, ok) ==
    IF ok THEN FirstOf({p \in PageIds : /\ notionPages[p].db = db
                                        /\ ~notionPages[p].archived
                                        /\ notionPages[p].gid = GEventId})
          ELSE NoPageId

notion_find_by_message_id(db, m, ok) ==
    IF ok THEN FirstOf({p \in PageIds : /\ notionPages[p].db = db
                                        /\ ~notionPages[p].archived
                                        /\ notionPages[p].mid = m})
          ELSE NoPageId

\* notion_extract_rich_text(page, NOTION_PROP_MESSAGE_ID) of a fetched page
MessageIdOf(p) == IF p = NoPageId THEN None ELSE notionPages[p].mid

DiscordIndex(did) ==
    IF \E i \in 1..Len(guildEvents) : DiscordIds[i] = did
      THEN CHOOSE i \in 1..Len(guildEvents) : DiscordIds[i] = did
      ELSE 0

DiscordAlive(did) == DiscordIndex(did) # 0 /\ guildEvents[DiscordIndex(did)].alive

\* find_discord_event_id_by_google_marker: the first listed event whose
\* description carries the marker
MarkerScan(ok) ==
    LET hits == {i \in 1..Len(guildEvents) : guildEvents[i].alive /\ guildEvents[i].marker}
    IN IF ok /\ hits # {} THEN DiscordIds[CHOOSE i \in hits : \A j \in hits : i <= j]
                          ELSE None

\* the discord map entry after a cancelled event went through sync_to_discord
DiscordMapAfterCancel_Kept(m) == m

DiscordMapAfterCancel(m) == None

\* sync_to_discord line 1024 and find_discord_event_id_by_google_marker lines
\* 955-956: the guild's scheduled events are listed when no id is known and
\* the marker mode is on
ScansMarker_AnyMode(known) == known = None
ScansMarker(known) == known = None /\ config.marker

\* sync_to_discord line 1030: a cancelled event takes the delete branch and
\* returns from it, whether or not a scheduled event was resolved
TakesCancelBranch_OnlyResolved(status, discord_event_id) ==
    status = "cancelled" /\ discord_event_id # None
TakesCancelBranch(status, discord_event_id) ==
    status = "cancelled"

\* the stored mapping dropped when the update fails
MapAfterUpdate_DropsOnFailure(updated, discord_event_id, map1) ==
    IF updated THEN discord_event_id ELSE None

\* sync_to_discord lines 1052-1062: a successful update stores the id it
\* returned, a failed one returns without touching the map
MapAfterUpdate(updated, discord_event_id, map1) ==
    IF updated THEN discord_event_id ELSE map1

\* sync_to_discord(event, notion_page, fallback_notion_page): pageMid and
\* fallbackMid are the message ids of the two pages as they were fetched
sync_to_discord(status, content, pageMid, fallbackMid, fault) ==
    IF ~config.discord
      THEN [calls |-> <<>>, guild |-> guildEvents, map |-> gcal_discord_map,
            ret |-> None, failed |-> FALSE, did |-> None]
      ELSE
        LET notion_discord_id == IF pageMid # None THEN pageMid ELSE fallbackMid
            known == IF notion_discord_id # None THEN notion_discord_id
                                                 ELSE gcal_discord_map
            scans == ScansMarker(known)
            discovered == IF scans THEN MarkerScan(fault # "discord.list") ELSE None
            discord_event_id == IF known # None THEN known ELSE discovered
            map1 == IF discovered # None THEN discovered ELSE gcal_discord_map
            scanCalls == IF scans THEN <<Call("discord.list", "guild")>> ELSE <<>>
            idx == DiscordIndex(discord_event_id)
        IN IF TakesCancelBranch(status, discord_event_id)
             THEN LET deleted == /\ discord_event_id # None
                                 /\ fault # "discord.delete"
                                 /\ DiscordAlive(discord_event_id)
                  IN [calls |-> scanCalls \o
                                (IF discord_event_id # None
                                   THEN <<Call("discord.delete", discord_event_id)>>
                                   ELSE <<>>),
                      guild |-> IF deleted
                                  THEN [guildEvents EXCEPT ![idx].alive = FALSE]
                                  ELSE guildEvents,
                      map |-> DiscordMapAfterCancel(map1),
                      ret |-> None,
                      failed |-> (discord_event_id # None /\ ~deleted)
                                 \/ (scans /\ fault = "discord.list"),
                      did |-> discord_event_id]
             ELSE IF discord_event_id # None
               THEN LET updated == /\ fault # "discord.update"
                                   /\ DiscordAlive(discord_event_id)
                    IN [calls |-> scanCalls \o <<Call("discord.update", discord_event_id)>>,
                        guild |-> IF updated
                                    THEN [guildEvents EXCEPT
                                            ![idx].content = content,
                                            ![idx].scheduled_end_time =
                                                ParseEnd(EventStart, content),
                                            ![idx].marker = config.marker]
                                    ELSE guildEvents,
                        map |-> MapAfterUpdate(updated, discord_event_id, map1),
                        ret |-> IF updated THEN discord_event_id ELSE None,
                        failed |-> ~updated \/ (scans /\ fault = "discord.list"),
                        did |-> discord_event_id]
               ELSE LET created == fault # "discord.create"
                        newId == DiscordIds[Len(guildEvents) + 1]
                    IN [calls |-> scanCalls \o <<Call("discord.create", "guild")>>,
                        guild |-> IF created
                                    THEN Append(guildEvents,
                                                [content |-> content, alive |-> TRUE,
                                                 scheduled_end_time |->
                                                     ParseEnd(EventStart, content),
                                                 marker |-> config.marker])
                                    ELSE guildEvents,
                        map |-> IF created THEN newId ELSE map1,
                        ret |-> IF created THEN newId ELSE None,
                        failed |-> ~created \/ (scans /\ fault = "discord.list"),
                        did |-> None]

\* a PATCH of a page: the data base refuses to edit an archived page
PatchOk(pages, p, ok) == ok /\ ~pages[p].archived

NewPage(db, gid, mid, content) ==
    [db |-> db, gid |-> gid, mid |-> mid, content |-> content, archived |-> FALSE]

\* notion_get_page lines 622-630: a page the integration no longer reaches
\* (deleted for good, or no longer shared) answers 404, and None is returned
Fetchable(p) == notionPages[p].db # "gone"

\* upsert_event, first part: the internal page as resolved through the map or
\* by a query, with the calls made and whether one of them failed
ResolveInternalPage(fault) ==
    LET mapped == gcal_notion_map.internal
        got == IF mapped # NoPageId /\ fault # "get_internal" /\ Fetchable(mapped)
                 THEN mapped ELSE NoPageId
    IN [page |-> IF got # NoPageId THEN got
                 ELSE notion_find_by_google_event_id("internal", fault # "query_internal"),
        calls |-> (IF mapped # NoPageId
                     THEN <<Call("notion.get", PageName[mapped])>> ELSE <<>>)
                  \o (IF got = NoPageId THEN <<Call("notion.query", "internal")>>
                                        ELSE <<>>),
        failed |-> (mapped # NoPageId /\ got = NoPageId)
                   \/ (got = NoPageId /\ fault = "query_internal")]

\* upsert_event, second part: the external page, looked for only when the
\* external data base is configured
ResolveExternalPage(fault) ==
    LET mapped == gcal_notion_map.external
        got == IF mapped # NoPageId /\ fault # "get_external" /\ Fetchable(mapped)
                 THEN mapped ELSE NoPageId
        byMsg == IF got = NoPageId
                   THEN notion_find_by_message_id("external", GEventId,
                                                  fault # "query_external")
                   ELSE NoPageId
        byGid == IF got = NoPageId /\ byMsg = NoPageId
                   THEN notion_find_by_google_event_id("external", fault # "query_external")
                   ELSE NoPageId
    IN IF ~config.external
         THEN [page |-> NoPageId, calls |-> <<>>, failed |-> FALSE]
         ELSE [page |-> IF got # NoPageId THEN got
                        ELSE IF byMsg # NoPageId THEN byMsg ELSE byGid,
               calls |-> (IF mapped # NoPageId
                            THEN <<Call("notion.get", PageName[mapped])>> ELSE <<>>)
                         \o (IF got = NoPageId
                               THEN <<Call("notion.query", "external")>> ELSE <<>>)
                         \o (IF got = NoPageId /\ byMsg = NoPageId
                               THEN <<Call("notion.query", "external")>> ELSE <<>>),
               failed |-> (mapped # NoPageId /\ got = NoPageId)
                          \/ (got = NoPageId /\ fault = "query_external")]

\* the internal map entry after the resolution, an unfetchable entry kept
InternalMapOf_KeepsStale(page) ==
    IF page = NoPageId THEN gcal_notion_map.internal ELSE page

\* the internal map entry after the resolution, lines 1095-1104: the entry of
\* a page that notion_get_page returned stays, the entry of a page that it did
\* not return is removed, and the page the query found is stored
InternalMapOf(page) == page

\* the external map entry, never stored
ExternalMapOf_NotStored(external_page) == NoPageId

\* the external map entry after the run: the resolved or created page, or the
\* old entry when the external data base is not configured
ExternalMapOf(external_page) ==
    IF config.external THEN external_page ELSE gcal_notion_map.external

\* upsert_event, the branch of a cancelled event; d is what sync_to_discord did
CancelledBranch(fault, page, external_page, d) ==
    LET archInt == page # NoPageId /\ fault # "archive_internal"
        archExt == external_page # NoPageId /\ fault # "archive_external"
    IN [pages |-> [p \in PageIds |->
                     IF (p = page /\ archInt) \/ (p = external_page /\ archExt)
                       THEN [notionPages[p] EXCEPT !.archived = TRUE]
                       ELSE notionPages[p]],
        guild |-> d.guild,
        nmap |-> [internal |-> NoPageId,
                  external |-> IF external_page # NoPageId THEN NoPageId
                               ELSE ExternalMapOf(external_page)],
        dmap |-> d.map,
        calls |-> (IF page # NoPageId
                     THEN <<Call("notion.archive", PageName[page])>> ELSE <<>>)
                  \o (IF external_page # NoPageId
                        THEN <<Call("notion.archive", PageName[external_page])>>
                        ELSE <<>>)
                  \o d.calls,
        failed |-> \/ d.failed
                   \/ (page # NoPageId /\ ~archInt)
                   \/ (external_page # NoPageId /\ ~archExt)]

\* upsert_event, the internal page of an active event: updated, created, or
\* left out when the event has finished (skip_internal_create)
InternalStep(fault, page) ==
    LET content == gevent.end_dt
        end_dt == ParseEnd(EventStart, gevent.end_dt)
        skip_internal_create == page = NoPageId /\ end_dt <= reconNow
        updated == page # NoPageId /\ PatchOk(notionPages, page, fault # "update_internal")
        creates == page = NoPageId /\ ~skip_internal_create
        created == creates /\ fault # "create_internal"
        new == Len(notionPages) + 1
    IN [pages |-> IF updated
                    THEN [notionPages EXCEPT ![page].content = content,
                                             ![page].gid = GEventId]
                  ELSE IF created
                    THEN Append(notionPages, NewPage("internal", GEventId, None, content))
                    ELSE notionPages,
        page |-> IF created THEN new ELSE page,
        calls |-> IF page # NoPageId
                    THEN <<Call("notion.update", PageName[page])>>
                  ELSE IF creates
                    THEN <<Call("notion.create", "internal")>>
                         \o (IF created THEN <<Call("notion.update", PageName[new])>>
                                        ELSE <<>>)
                    ELSE <<>>,
        returns |-> creates /\ ~created,
        failed |-> (page # NoPageId /\ ~updated) \/ (creates /\ ~created)]

\* upsert_event, the external page of an active event: updated or created
ExternalStep(fault, pages, external_page) ==
    LET content == gevent.end_dt
        updated == /\ external_page # NoPageId
                   /\ PatchOk(pages, external_page, fault # "update_external")
        created == external_page = NoPageId /\ fault # "create_external"
        new == Len(pages) + 1
    IN IF ~config.external
         THEN [pages |-> pages, page |-> NoPageId, calls |-> <<>>, failed |-> FALSE]
         ELSE [pages |-> IF updated
                           THEN [pages EXCEPT ![external_page].content = content,
                                              ![external_page].mid = GEventId]
                         ELSE IF created
                           THEN Append(pages, NewPage("external", None, GEventId, content))
                           ELSE pages,
               page |-> IF created THEN new ELSE external_page,
               calls |-> IF external_page # NoPageId
                           THEN <<Call("notion.update", PageName[external_page])>>
                           ELSE <<Call("notion.create", "external")>>
                                \o (IF created THEN <<Call("notion.update", PageName[new])>>
                                               ELSE <<>>),
               failed |-> ~updated /\ ~created]

\* upsert_event, last part: the id sync_to_discord returned is written to the
\* message id of both pages
MessageIdStep(fault, pages, page, external_page, discord_event_id) ==
    LET writes == discord_event_id # None
        midInt == /\ writes /\ page # NoPageId
                  /\ PatchOk(pages, page, fault # "message_id_internal")
        midExt == /\ writes /\ external_page # NoPageId
                  /\ PatchOk(pages, external_page, fault # "message_id_external")
    IN [pages |-> [p \in 1..Len(pages) |->
                     IF (p = page /\ midInt) \/ (p = external_page /\ midExt)
                       THEN [pages[p] EXCEPT !.mid = discord_event_id]
                       ELSE pages[p]],
        calls |-> (IF writes /\ page # NoPageId
                     THEN <<Call("notion.update", PageName[page])>> ELSE <<>>)
                  \o (IF writes /\ external_page # NoPageId
                        THEN <<Call("notion.update", PageName[external_page])>> ELSE <<>>),
        failed |-> (writes /\ page # NoPageId /\ ~midInt)
                   \/ (writes /\ external_page # NoPageId /\ ~midExt)]

\* no map was lost since the last run
NoLoss == [notion |-> [internal |-> NoPageId, external |-> NoPageId], discord |-> None]

InitRecon ==
    /\ reconPc = "off"
    /\ config = [external |-> FALSE, discord |-> FALSE, marker |-> FALSE]
    /\ reconNow = EventStart
    /\ gevent = [status |-> "confirmed", end_dt |-> NoTime, start |-> EventStart]
    /\ notionPages = <<>>
    /\ guildEvents = <<>>
    /\ gcal_notion_map = [internal |-> NoPageId, external |-> NoPageId]
    /\ gcal_discord_map = None
    /\ reconLast = [status |-> None, page |-> NoPageId, external_page |-> NoPageId,
                    did |-> None, ret |-> None, stale |-> FALSE, failed |-> FALSE]
    /\ reconCalls = <<>>
    /\ cleanRuns = 0
    /\ lostMaps = NoLoss
    /\ restarts = 0

reconStores == <<notionPages, guildEvents, gcal_notion_map, gcal_discord_map>>
reconHistory == <<reconLast, reconCalls, cleanRuns, lostMaps, restarts>>

\* module level: NOTION_EVENT_EXTERNAL_DB_ID, DISCORD_SYNC_ENABLED (with token
\* and guild id) and DISCORD_APPEND_GCAL_MARKER are read from the environment
ReconStartup ==
    /\ reconPc = "off"
    /\ reconPc' = "ready"
    /\ config' \in {c \in [external : BOOLEAN, discord : BOOLEAN, marker : BOOLEAN] :
                      c.marker => c.discord}      \* the marker is used by the chat sync only
    /\ UNCHANGED <<reconNow, gevent, reconStores, reconHistory>>

\* datetime.now(timezone.utc) advances
ReconTick ==
    /\ reconPc = "ready"
    /\ reconNow < MaxReconNow
    /\ reconNow' = reconNow + 1
    /\ UNCHANGED <<reconPc, config, gevent, reconStores, reconHistory>>

\* the calendar's owner edits or cancels the event
EventEdit ==
    /\ reconPc = "ready"
    /\ gevent.status = "confirmed"
    /\ gevent' \in [status : {"confirmed", "cancelled"}, end_dt : EndChoices,
                     start : {gevent.start}] \ {gevent}
    /\ cleanRuns' = 0
    /\ lostMaps' = NoLoss
    /\ UNCHANGED <<reconPc, config, reconNow, reconStores, reconLast, reconCalls, restarts>>

\* the mapped internal page leaves the reach of the integration: deleted for
\* good in the document store, or no longer shared
PageUnshared ==
    /\ reconPc = "ready"
    /\ \A q \in PageIds : Fetchable(q)
    /\ \E p \in {gcal_notion_map.internal} \cap PageIds :
          notionPages' = [notionPages EXCEPT ![p].db = "gone"]
    /\ cleanRuns' = 0
    /\ lostMaps' = NoLoss
    /\ UNCHANGED <<reconPc, config, reconNow, gevent, guildEvents, gcal_notion_map,
                   gcal_discord_map, reconLast, reconCalls, restarts>>

\* the calendar hands out the event without start.dateTime and start.date
StartRemoved ==
    /\ reconPc = "ready"
    /\ gevent.status = "confirmed"
    /\ gevent.start # NoTime
    /\ gevent' = [gevent EXCEPT !.start = NoTime]
    /\ cleanRuns' = 0
    /\ lostMaps' = NoLoss
    /\ UNCHANGED <<reconPc, config, reconNow, reconStores, reconLast, reconCalls, restarts>>

\* the service restarts after a run that reconciled the event without failure
\* and finds neither map file: load_gcal_notion_map and load_gcal_discord_map
\* start from empty maps, while the pages and scheduled events are still there
MapsLost ==
    /\ reconPc = "ready"
    /\ gevent.status = "confirmed"
    /\ cleanRuns >= 1
    /\ restarts < MaxRestarts
    /\ restarts' = restarts + 1
    /\ [notion |-> gcal_notion_map, discord |-> gcal_discord_map] # NoLoss
    /\ lostMaps' = [notion |-> gcal_notion_map, discord |-> gcal_discord_map]
    /\ gcal_notion_map' = NoLoss.notion
    /\ gcal_discord_map' = NoLoss.discord
    /\ cleanRuns' = 0
    /\ UNCHANGED <<reconPc, config, reconNow, gevent, notionPages, guildEvents,
                   reconLast, reconCalls>>

\* no page of either data base and no scheduled event mirrors the event
NoMirror ==
    /\ \A p \in PageIds : notionPages[p].archived
    /\ \A i \in 1..Len(guildEvents) : ~guildEvents[i].alive

Min2(a, b) == IF a < b THEN a ELSE b

\* the history variables after one upsert_event
Recorded(page, external_page, did, ret, calls, failed) ==
    /\ reconCalls' = calls
    /\ reconLast' = [status |-> gevent.status, page |-> page,
                     external_page |-> external_page, did |-> did, ret |-> ret,
                     stale |-> /\ gevent.status = "confirmed"
                               /\ NoMirror
                               /\ ParseEnd(EventStart, gevent.end_dt) < reconNow,
                     failed |-> failed]
    /\ cleanRuns' = IF gevent.status = "confirmed" /\ ~failed
                      THEN Min2(cleanRuns + 1, 2) ELSE 0
    /\ lostMaps' = NoLoss

\* build_notion_date lines 518-528 and upsert_event lines 1152-1154: without
\* start.dateTime and start.date there is no date property, and the run returns
HasDateProp_Always(event) == TRUE
HasDateProp(event) == event.start # NoTime

\* one call of upsert_event from sync_calendar's loop, for the event in gevent;
\* `fault` is the kind of collaborator call that fails in this run
upsert_event ==
    /\ reconPc = "ready"
    /\ \E fault \in Faults \cup {NoFault} :
       \E i \in {ResolveInternalPage(fault)}, x \in {ResolveExternalPage(fault)} :
         IF gevent.status = "cancelled"
           THEN \E d \in {sync_to_discord("cancelled", gevent.end_dt, MessageIdOf(i.page),
                                          MessageIdOf(x.page), fault)} :
                \E r \in {CancelledBranch(fault, i.page, x.page, d)} :
                  /\ notionPages' = r.pages
                  /\ guildEvents' = r.guild
                  /\ gcal_notion_map' = r.nmap
                  /\ gcal_discord_map' = r.dmap
                  /\ Recorded(i.page, x.page, d.did, d.ret, i.calls \o x.calls \o r.calls,
                              i.failed \/ x.failed \/ r.failed)
           ELSE IF ~HasDateProp(gevent)
             THEN /\ gcal_notion_map' = [internal |-> InternalMapOf(i.page),
                                         external |-> ExternalMapOf(x.page)]
                  /\ UNCHANGED <<notionPages, guildEvents, gcal_discord_map>>
                  /\ Recorded(i.page, x.page, None, None, i.calls \o x.calls,
                              i.failed \/ x.failed)
           ELSE \E a \in {InternalStep(fault, i.page)} :
                  IF a.returns
                    THEN /\ gcal_notion_map' = [internal |-> InternalMapOf(i.page),
                                                external |-> ExternalMapOf(x.page)]
                         /\ UNCHANGED <<notionPages, guildEvents, gcal_discord_map>>
                         /\ Recorded(i.page, x.page, None, None, i.calls \o x.calls \o a.calls,
                                     TRUE)
                    ELSE \E b \in {ExternalStep(fault, a.pages, x.page)},
                            d \in {sync_to_discord("confirmed", gevent.end_dt,
                                                   MessageIdOf(i.page), None, fault)} :
                         \E m \in {MessageIdStep(fault, b.pages, a.page, b.page, d.ret)} :
                           /\ Len(m.pages) <= MaxPages + restarts
                           /\ Len(d.guild) <= MaxGuildEvents
                           /\ notionPages' = m.pages
                           /\ guildEvents' = d.guild
                           /\ gcal_notion_map' = [internal |-> a.page,
                                                  external |-> ExternalMapOf(b.page)]
                           /\ gcal_discord_map' = d.map
                           /\ Recorded(i.page, x.page, d.did, d.ret,
                                       i.calls \o x.calls \o a.calls \o b.calls
                                       \o d.calls \o m.calls,
                                       \/ i.failed \/ x.failed \/ a.failed \/ b.failed
                                       \/ d.failed \/ m.failed)
    /\ UNCHANGED <<reconPc, config, reconNow, gevent, restarts>>

(***************************************************************************)
(* Chat-platform callbacks of the bot (services/bot/bot.py)                *)
(***************************************************************************)
NoId == 0                           \* None, among user ids
BotUserId == 1                      \* bot.user.id
OtherUserId == 2                    \* any other member
DEventIds == {"e1"}                 \* scheduled event ids

CalendarCalls == {"calendar.insert", "calendar.patch", "calendar.delete"}
NotionCalls == {"notion.query", "notion.get", "notion.create", "notion.update",
                "notion.archive"}

\* <<creator_id, creator.id>> as the gateway delivers them: either may be
\* missing, and when both are present they name the same user
CreatorPairs == {<<BotUserId, BotUserId>>, <<BotUserId, NoId>>, <<NoId, BotUserId>>,
                 <<OtherUserId, OtherUserId>>, <<NoId, NoId>>}

NoEvent == [state |-> "none", creator_id |-> NoId, creator |-> NoId, ignored |-> FALSE]

\* no callback and no calendar notification awaits, no member has edited and
\* no notification fell into the cooldown (skipped is history)
NonePending == [edited |-> FALSE, callback |-> FALSE, notification |-> FALSE,
                skipped |-> FALSE]

\* on_scheduled_event_create has not been called
NoCreate == [at |-> "none", did |-> None, gid |-> None, ignored |-> FALSE, failed |-> FALSE]
DeletedEvent == [NoEvent EXCEPT !.state = "deleted"]

InitBot ==
    /\ botPc = "off"
    /\ bot_user = NoId
    /\ NOTION_EVENT_EXTERNAL_DB_ID = FALSE
    /\ discordEvents = [e \in DEventIds |-> NoEvent]
    /\ botInternalPages = {}
    /\ botExternalPages = {}
    /\ botCalendar = {}
    /\ botLast = [handler |-> "none", user |-> NoId, creator_id |-> NoId, creator |-> NoId]
    /\ botCalls = {}
    /\ createPc = NoCreate
    /\ pending = NonePending

\* module level: the environment is read, then bot.run() starts the client
BotStartup ==
    /\ botPc = "off"
    /\ botPc' = "running"
    /\ NOTION_EVENT_EXTERNAL_DB_ID' \in BOOLEAN
    /\ UNCHANGED <<bot_user, discordEvents, botInternalPages, botExternalPages,
                   botCalendar, botLast, botCalls, createPc, pending>>

\* the client logs in: bot.user is set
BotLogin ==
    /\ botPc = "running"
    /\ bot_user = NoId
    /\ bot_user' = BotUserId
    /\ UNCHANGED <<botPc, NOTION_EVENT_EXTERNAL_DB_ID, discordEvents, botInternalPages,
                   botExternalPages, botCalendar, botLast, botCalls, createPc, pending>>

\* is_bot_created_scheduled_event, creator object ignored
IsBotCreatedScheduledEvent_CreatorIdOnly(user, creator_id, creator) ==
    /\ user # NoId
    /\ creator_id # NoId /\ creator_id = user

IsBotCreatedScheduledEvent(user, creator_id, creator) ==
    /\ user # NoId
    /\ \/ creator_id # NoId /\ creator_id = user
       \/ creator # NoId /\ creator = user

IsBotCreated(ev) == IsBotCreatedScheduledEvent(bot_user, ev.creator_id, ev.creator)

\* find_event_page: the page of the data base whose message id is the event id;
\* a failed query yields no page
FindEventPage(pages, e, queryOk) ==
    IF queryOk THEN {p \in pages : p.mid = e} ELSE {}

BotFrame == UNCHANGED <<botPc, bot_user, NOTION_EVENT_EXTERNAL_DB_ID, createPc, pending>>

on_scheduled_event_create(e) ==
    /\ botPc = "running"
    /\ discordEvents[e].state = "none"
    /\ \E cp \in CreatorPairs, ign \in BOOLEAN, service \in BOOLEAN,
          insertOk \in BOOLEAN, extOk \in BOOLEAN, intOk \in BOOLEAN :
         LET ev == [state |-> "live", creator_id |-> cp[1], creator |-> cp[2],
                    ignored |-> ign]
             inserted == service /\ insertOk
             gid == IF inserted THEN e ELSE None
             extTried == ~ign /\ NOTION_EVENT_EXTERNAL_DB_ID
         IN /\ discordEvents' = [discordEvents EXCEPT ![e] = ev]
            /\ botLast' = [handler |-> "create", user |-> bot_user,
                           creator_id |-> ev.creator_id, creator |-> ev.creator]
            /\ IF IsBotCreated(ev)
                 THEN /\ botCalls' = {}
                      /\ UNCHANGED <<botInternalPages, botExternalPages, botCalendar>>
                 ELSE /\ botCalendar' = IF inserted THEN botCalendar \cup {e} ELSE botCalendar
                      /\ botExternalPages' =
                           IF extTried /\ extOk
                             THEN botExternalPages \cup {[mid |-> e, gid |-> None]}
                             ELSE botExternalPages
                      /\ botInternalPages' =
                           IF intOk THEN botInternalPages \cup {[mid |-> e, gid |-> gid]}
                                    ELSE botInternalPages
                      /\ botCalls' =
                           (IF service THEN {"calendar.insert"} ELSE {})
                           \cup {"notion.create"}      \* the internal data base
                           \cup (IF (extTried /\ extOk) \/ intOk THEN {"notion.update"} ELSE {})
    /\ BotFrame

\* the page find_event_page returns, or NoPage
NoPage == [mid |-> None, gid |-> None]
PageOf(found) == IF found = {} THEN NoPage ELSE CHOOSE p \in found : TRUE

on_scheduled_event_update(e) ==
    /\ botPc = "running"
    /\ discordEvents[e].state = "live"
    /\ \E ign \in BOOLEAN, service \in BOOLEAN, extQueryOk \in BOOLEAN,
          intQueryOk \in BOOLEAN, getOk \in BOOLEAN :
         LET after == [discordEvents[e] EXCEPT !.ignored = ign]
             extAsked == ~ign /\ NOTION_EVENT_EXTERNAL_DB_ID
             target == IF extAsked THEN PageOf(FindEventPage(botExternalPages, e, extQueryOk))
                                   ELSE NoPage
             internal_target == PageOf(FindEventPage(botInternalPages, e, intQueryOk))
             google_event_id == IF internal_target # NoPage /\ getOk
                                  THEN internal_target.gid ELSE None
         IN /\ discordEvents' = [discordEvents EXCEPT ![e] = after]
            /\ botLast' = [handler |-> "update", user |-> bot_user,
                           creator_id |-> after.creator_id, creator |-> after.creator]
            /\ botCalls' =
                 IF IsBotCreated(after) THEN {}
                 ELSE {"notion.query"}
                      \cup (IF internal_target # NoPage THEN {"notion.get", "notion.update"}
                                                        ELSE {})
                      \cup (IF google_event_id # None /\ service THEN {"calendar.patch"}
                                                                 ELSE {})
                      \cup (IF target # NoPage THEN {"notion.update"} ELSE {})
    /\ UNCHANGED <<botInternalPages, botExternalPages, botCalendar>>
    /\ BotFrame

on_scheduled_event_delete(e) ==
    /\ botPc = "running"
    /\ discordEvents[e].state = "live"
    /\ \E service \in BOOLEAN, extQueryOk \in BOOLEAN, intQueryOk \in BOOLEAN,
          getOk \in BOOLEAN, gdelOk \in BOOLEAN, extArchOk \in BOOLEAN,
          intArchOk \in BOOLEAN :
         LET ev == discordEvents[e]
             extAsked == ~ev.ignored /\ NOTION_EVENT_EXTERNAL_DB_ID
             target == IF extAsked THEN PageOf(FindEventPage(botExternalPages, e, extQueryOk))
                                   ELSE NoPage
             internal_target == PageOf(FindEventPage(botInternalPages, e, intQueryOk))
             google_event_id == IF internal_target # NoPage /\ getOk
                                  THEN internal_target.gid ELSE None
         IN /\ discordEvents' = [discordEvents EXCEPT ![e] = DeletedEvent]
            /\ botLast' = [handler |-> "delete", user |-> bot_user,
                           creator_id |-> ev.creator_id, creator |-> ev.creator]
            /\ IF IsBotCreated(ev)
                 THEN /\ botCalls' = {}
                      /\ UNCHANGED <<botInternalPages, botExternalPages, botCalendar>>
                 ELSE /\ botExternalPages' =
                           IF target # NoPage /\ extArchOk THEN botExternalPages \ {target}
                                                           ELSE botExternalPages
                      /\ botInternalPages' =
                           IF internal_target # NoPage /\ intArchOk
                             THEN botInternalPages \ {internal_target}
                             ELSE botInternalPages
                      /\ botCalendar' =
                           IF google_event_id # None /\ service /\ gdelOk
                             THEN botCalendar \ {google_event_id} ELSE botCalendar
                      /\ botCalls' =
                           {"notion.query"}
                           \cup (IF target # NoPage THEN {"notion.archive"} ELSE {})
                           \cup (IF internal_target # NoPage
                                   THEN {"notion.get", "notion.archive"} ELSE {})
                           \cup (IF google_event_id # None /\ service
                                   THEN {"calendar.delete"} ELSE {})
    /\ BotFrame

(***************************************************************************)
(* Specifications                                                          *)
(***************************************************************************)
(***************************************************************************)
(* Functions checked on their own                                          *)
(***************************************************************************)
BadTime == -2                       \* a dateTime or date string that does not parse

\* one part of an event, start or end: dateTime in hours, date in days
\* (NoTime: the key is absent)
Parts == [dateTime : {NoTime, BadTime} \cup 0..MaxHour, date : {NoTime, BadTime} \cup 1..MaxDay]
NoPart == [dateTime |-> NoTime, date |-> NoTime]

\* parse_part lines 831-845: the dateTime when it parses, else the date at
\* 00:00 JST (-9 hours) plus 1 hour for an end and 9 hours for a start
parse_part(part, is_end) ==
    IF part.dateTime \notin {NoTime, BadTime} THEN part.dateTime
    ELSE IF part.date \notin {NoTime, BadTime}
           THEN 24 * part.date - 9 + (IF is_end THEN 1 ELSE 9)
           ELSE NoTime

\* parse_google_event_times lines 847-853
SynthesisNeeded_StrictlyBefore(start_dt, end_dt) == end_dt = NoTime \/ end_dt < start_dt
SynthesisNeeded(start_dt, end_dt) == end_dt = NoTime \/ end_dt <= start_dt
parse_google_event_times(event) ==
    LET start_dt == parse_part(event.start, FALSE)
        end_dt == parse_part(event.end, TRUE)
    IN IF start_dt = NoTime THEN [start_dt |-> NoTime, end_dt |-> NoTime]
       ELSE [start_dt |-> start_dt,
             end_dt |-> IF SynthesisNeeded(start_dt, end_dt) THEN start_dt + 1 ELSE end_dt]

\* text is modelled by its length; limits and fixed texts are scaled down
DISCORD_NAME_LIMIT == 2
DISCORD_DESCRIPTION_LIMIT == 4
DISCORD_LOCATION_LIMIT == 2
NotionTextLimit == 4                \* longest text content the document store accepts
MarkerLen == 2                      \* len(DISCORD_ORIGIN_MARKER_PREFIX + id + "]")
SeparatorLen == 2                   \* len("\n\n")
NoTitleLen == 1                     \* len("(no title)")
NoContentLen == 1                   \* len("(no content)")
LocationFallbackLen == 1            \* len(DISCORD_LOCATION_FALLBACK)

\* text[:limit]
Clip(len, limit) == IF len > limit THEN limit ELSE len

\* x or default
OrDefault(len, defaultLen) == IF len = 0 THEN defaultLen ELSE len

\* build_discord_description lines 888-896
build_discord_description(description, marker) ==
    Clip(IF marker THEN (IF description > 0 THEN description + SeparatorLen + MarkerLen
                                            ELSE MarkerLen)
                   ELSE description,
         DISCORD_DESCRIPTION_LIMIT)

\* build_discord_payload lines 905-925
build_discord_payload(event) ==
    [name |-> Clip(OrDefault(event.summary, NoTitleLen), DISCORD_NAME_LIMIT),
     description |-> build_discord_description(event.description, event.marker),
     location |-> Clip(OrDefault(event.location, LocationFallbackLen),
                       DISCORD_LOCATION_LIMIT)]

\* upsert_event lines 1140-1143 and the arguments of notion_update_event and
\* notion_create_event (lines 1156-1180), which write them as they are
NotionFields(event) ==
    [name |-> OrDefault(event.summary, NoTitleLen),
     content |-> OrDefault(event.description, NoContentLen),
     location |-> event.location]

NoFields == [name |-> 0, description |-> 0, location |-> 0]

\* ---- the retention sweep (services/bot/bot.py), days and hours as integers
RETENTION_DAYS == 30
\* the date property of an external page: its start day, NoTime when the page has no date
ExternalDates == {NoTime, 0, 1}
Todays == {30, 31}
\* the date property of an internal page: none, or the end (else start) as an
\* ISO text with a UTC offset ("aware") or without one, as the date of an
\* all-day event is written ("naive")
InternalDates == [kind : {"none", "aware", "naive"}, end : {1, 2}]
Nows == {1, 2}
SeqsUpTo(S, n) == UNION {[1..k -> S] : k \in 0..n}
NoSweep == [today |-> 0, now |-> 0, external |-> <<>>, internal |-> <<>>]

\* delete_past_events_for_db lines 510-552: the indices of the pages archived
delete_past_events_for_db(pages, today) ==
    {i \in 1..Len(pages) : pages[i] # NoTime /\ today - pages[i] >= RETENTION_DAYS}

\* delete_finished_events_for_db lines 555-597: the loop over the query
\* result; datetime.fromisoformat of a text without offset is naive, and its
\* comparison with datetime.now(JST) raises TypeError, which ends the loop
RECURSIVE delete_finished_events_for_db(_, _, _)
delete_finished_events_for_db(pages, i, at) ==
    IF i > Len(pages) THEN [archived |-> {}, raised |-> FALSE]
    ELSE IF pages[i].kind = "none" THEN delete_finished_events_for_db(pages, i + 1, at)
    ELSE IF pages[i].kind = "naive" THEN [archived |-> {}, raised |-> TRUE]
    ELSE LET rest == delete_finished_events_for_db(pages, i + 1, at)
         IN [rest EXCEPT !.archived = IF pages[i].end <= at THEN @ \cup {i} ELSE @]

\* delete_past_events lines 600-614: the external data base, then the internal one
delete_past_events(in) ==
    LET fin == delete_finished_events_for_db(in.internal, 1, in.now)
    IN [external |-> delete_past_events_for_db(in.external, in.today),
        internal |-> fin.archived, raised |-> fin.raised]

InitPure ==
    /\ timesIn = [start |-> NoPart, end |-> NoPart]
    /\ timesOut = [start_dt |-> NoTime, end_dt |-> NoTime]
    /\ clipIn = [summary |-> 0, description |-> 0, location |-> 0, marker |-> FALSE]
    /\ discordPayload = NoFields
    /\ notionProps = [name |-> 0, content |-> 0, location |-> 0]
    /\ sweepIn = NoSweep
    /\ sweepOut = [external |-> {}, internal |-> {}, raised |-> FALSE]

ParseTimesCall ==
    /\ \E sp \in Parts, ep \in Parts :
          /\ timesIn' = [start |-> sp, end |-> ep]
          /\ timesOut' = parse_google_event_times([start |-> sp, end |-> ep])
    /\ UNCHANGED <<outsidePure, clipIn, discordPayload, notionProps, sweepIn, sweepOut>>

\* the daily task auto_clean runs delete_past_events once
SweepCall ==
    /\ sweepIn = NoSweep
    /\ \E in \in [today : Todays, now : Nows,
                   external : SeqsUpTo(ExternalDates, MaxSweepPages),
                   internal : SeqsUpTo(InternalDates, MaxSweepPages)] :
          /\ sweepIn' = in
          /\ sweepOut' = delete_past_events(in)
    /\ UNCHANGED <<outsidePure, timesIn, timesOut, clipIn, discordPayload, notionProps>>

\* one event goes through build_discord_payload and through the document-store
\* writes of upsert_event
BuildFieldsCall ==
    /\ \E ev \in [summary : 0..MaxLen, description : 0..MaxLen, location : 0..MaxLen,
                   marker : BOOLEAN] :
          /\ clipIn' = ev
          /\ discordPayload' = build_discord_payload(ev)
          /\ notionProps' = NotionFields(ev)
    /\ UNCHANGED <<outsidePure, timesIn, timesOut, sweepIn, sweepOut>>

Init == InitDedup /\ InitCoord /\ InitPoll /\ InitBot /\ InitRecon /\ InitPure

Next ==
    \/ Tick
    \/ \E t \in Threads : WebhookRequest(t)
    \/ \E t \in Threads : ManualRequest(t)
    \/ \E t \in Threads : DedupeCheck(t)
    \/ \E t \in Threads : DedupeAdd(t)
    \/ \E t \in Threads : GuardCooldown(t)
    \/ \E t \in Threads : GuardAcquire(t)
    \/ \E t \in Threads : SyncCalendarRuns(t)
    \/ \E t \in Threads : SetLastRun(t)
    \/ \E t \in Threads : ReleaseLock(t)
    \/ \E t \in Threads : Respond(t)

Spec == Init /\ [][Next]_vars

\* ---- webhook deliveries with several keys, the clock standing still
NextWebhook ==
    \/ \E t \in Threads : WebhookDelivery(t)
    \/ \E t \in Threads : DedupeCheck(t)
    \/ \E t \in Threads : DedupeAdd(t)
    \/ \E t \in Threads : GuardCooldown(t)
    \/ \E t \in Threads : GuardAcquire(t)
    \/ \E t \in Threads : SyncCalendarRuns(t)
    \/ \E t \in Threads : SetLastRun(t)
    \/ \E t \in Threads : ReleaseLock(t)
    \/ \E t \in Threads : Respond(t)

SpecWebhook == Init /\ [][NextWebhook]_vars

\* ---- the change poller: passes one at a time, the calendar edited in between
NextPoll ==
    \/ PollTick
    \/ \E g \in GIds : CalendarEdit(g)
    \/ SyncList
    \/ SyncSave

SpecPoll == Init /\ [][NextPoll]_vars

\* ---- the duplicate guard alone
RegisterCall == \E mid \in Keys \cup {NoKey} : Register(mid)

NextDedup == RegisterCall \/ Restart \/ DiskChanges

SpecDedup == Init /\ [][NextDedup]_vars

\* Push notifications of calendar changes; every request that has arrived is
\* served to its end (the server schedules its threads), while nothing
\* obliges a further notification or the clock
RequestStep(t) ==
    \/ DedupeCheck(t) \/ DedupeAdd(t) \/ GuardCooldown(t) \/ GuardAcquire(t)
    \/ SyncCalendarRuns(t) \/ SetLastRun(t) \/ ReleaseLock(t) \/ Respond(t)

NextNotify ==
    \/ Tick
    \/ \E t \in Threads : ChangeNotified(t)
    \/ \E t \in Threads : DedupeCheck(t)
    \/ \E t \in Threads : DedupeAdd(t)
    \/ \E t \in Threads : GuardCooldown(t)
    \/ \E t \in Threads : GuardAcquire(t)
    \/ \E t \in Threads : SyncCalendarRuns(t)
    \/ \E t \in Threads : SetLastRun(t)
    \/ \E t \in Threads : ReleaseLock(t)
    \/ \E t \in Threads : Respond(t)

SpecNotify ==
    /\ Init
    /\ [][NextNotify]_vars
    /\ \A t \in Threads : WF_vars(RequestStep(t))

\* The bot's gateway callbacks
NextBot ==
    \/ BotStartup /\ UNCHANGED outsideBot
    \/ BotLogin /\ UNCHANGED outsideBot
    \/ \E e \in DEventIds : on_scheduled_event_create(e) /\ UNCHANGED outsideBot
    \/ \E e \in DEventIds : on_scheduled_event_update(e) /\ UNCHANGED outsideBot
    \/ \E e \in DEventIds : on_scheduled_event_delete(e) /\ UNCHANGED outsideBot

SpecBot == Init /\ [][NextBot]_vars

\* The reconciler on one calendar event
NextRecon ==
    \/ ReconStartup /\ UNCHANGED outsideRecon
    \/ ReconTick /\ UNCHANGED outsideRecon
    \/ EventEdit /\ UNCHANGED outsideRecon
    \/ upsert_event /\ UNCHANGED outsideRecon

SpecRecon == Init /\ [][NextRecon]_vars

\* ---- the reconciler across restarts of the service that lose the map files
NextRestart ==
    \/ ReconStartup /\ UNCHANGED outsideRecon
    \/ ReconTick /\ UNCHANGED outsideRecon
    \/ EventEdit /\ UNCHANGED outsideRecon
    \/ MapsLost /\ UNCHANGED outsideRecon
    \/ upsert_event /\ UNCHANGED outsideRecon

SpecRestart == Init /\ [][NextRestart]_vars

(***************************************************************************)
(* on_scheduled_event_create call by call, on the stores of the reconciler *)
(***************************************************************************)
loopFrame == <<dedupVars, coordVars, notifyVars, pollVars, pureVars, botPc, bot_user,
               NOTION_EVENT_EXTERNAL_DB_ID, discordEvents, botInternalPages,
               botExternalPages, botCalendar, botLast, botCalls>>
raceFrame == <<loopFrame, pending>>

\* a member creates a scheduled event; the gateway calls on_scheduled_event_create,
\* which goes on because the creator is not the bot (lines 1795-1806)
MemberCreatesEvent ==
    /\ reconPc = "ready"
    /\ createPc.at = "none"
    /\ guildEvents = <<>>
    /\ \E ign \in BOOLEAN :
          createPc' = [NoCreate EXCEPT !.at = "insert", !.did = DiscordIds[1],
                                       !.ignored = ign]
    /\ guildEvents' = <<[content |-> gevent.end_dt, alive |-> TRUE,
                         scheduled_end_time |-> ParseEnd(EventStart, gevent.end_dt),
                         marker |-> FALSE]>>
    /\ UNCHANGED <<raceFrame, reconPc, config, reconNow, gevent, notionPages,
                   gcal_notion_map, gcal_discord_map, reconHistory>>

\* lines 1808-1817: google_add_event; from now on the calendar holds the event
\* and notifies the webhook service of it
CreateInsertsCalendar ==
    /\ createPc.at = "insert"
    /\ \E ok \in BOOLEAN :
          createPc' = [createPc EXCEPT !.at = "external",
                                       !.gid = IF ok THEN GEventId ELSE None,
                                       !.failed = ~ok]
    /\ UNCHANGED <<raceFrame, reconVars>>

\* is_ignored_event lines 640-651 and the test at line 1820
ExternalWanted(ignored) == ~ignored

\* lines 1819-1831: the page of the external data base (notion_add_event
\* returns at once without a data base id)
CreateAddsExternal ==
    /\ createPc.at = "external"
    /\ \E ok \in BOOLEAN :
          IF ExternalWanted(createPc.ignored) /\ config.external
            THEN /\ notionPages' =
                      IF ok THEN Append(notionPages,
                                        NewPage("external", createPc.gid, createPc.did,
                                                gevent.end_dt))
                            ELSE notionPages
                 /\ createPc' = [createPc EXCEPT !.at = "internal",
                                                 !.failed = @ \/ ~ok]
            ELSE /\ ok
                 /\ createPc' = [createPc EXCEPT !.at = "internal"]
                 /\ UNCHANGED notionPages
    /\ UNCHANGED <<raceFrame, reconPc, config, reconNow, gevent, guildEvents,
                   gcal_notion_map, gcal_discord_map, reconHistory>>

\* lines 1833-1844: the page of the internal data base
CreateAddsInternal ==
    /\ createPc.at = "internal"
    /\ \E ok \in BOOLEAN :
          /\ notionPages' =
                IF ok THEN Append(notionPages,
                                  NewPage("internal", createPc.gid, createPc.did,
                                          gevent.end_dt))
                      ELSE notionPages
          /\ createPc' = [createPc EXCEPT !.at = "done", !.failed = @ \/ ~ok]
    /\ UNCHANGED <<raceFrame, reconPc, config, reconNow, gevent, guildEvents,
                   gcal_notion_map, gcal_discord_map, reconHistory>>

\* the pass the calendar's notification of the inserted event triggers, every
\* call of it succeeding
PassForInsertedEvent ==
    /\ createPc.gid # None
    /\ upsert_event
    /\ ~reconLast'.failed
    /\ UNCHANGED <<raceFrame, createPc>>

\* ---- a member's new scheduled event: the create callback and the pass for
\* the calendar event it inserts, interleaved
NextRace ==
    \/ ReconStartup /\ UNCHANGED outsideRecon
    \/ MemberCreatesEvent
    \/ CreateInsertsCalendar
    \/ CreateAddsExternal
    \/ CreateAddsInternal
    \/ PassForInsertedEvent

SpecRace == Init /\ [][NextRace]_vars

(***************************************************************************)
(* The member's event after its creation: an edit, the update callback of  *)
(* the bot, the calendar's notification and the pass it triggers           *)
(***************************************************************************)
\* a member edits the scheduled event they created; the gateway dispatches
\* the update to the bot
MemberEditsEvent ==
    /\ createPc.at = "done" /\ ~createPc.failed
    /\ pending = NonePending
    /\ DiscordAlive(createPc.did)
    /\ pending' = [NonePending EXCEPT !.edited = TRUE, !.callback = TRUE]
    /\ UNCHANGED <<loopFrame, createPc, reconVars>>

\* on_scheduled_event_update for the member's event: the creator is not the
\* bot, so the handler goes on; it patches the calendar event named by the
\* internal page of the scheduled event, and the calendar notifies its watcher
UpdateCallbackOfMember ==
    /\ pending.callback
    /\ ~IsBotCreatedScheduledEvent(BotUserId, OtherUserId, OtherUserId)
    /\ \E intQueryOk \in BOOLEAN, getOk \in BOOLEAN, service \in BOOLEAN :
         LET found == {p \in PageIds : /\ notionPages[p].db = "internal"
                                       /\ notionPages[p].mid = createPc.did
                                       /\ ~notionPages[p].archived
                                       /\ intQueryOk}
             google_event_id == IF found # {} /\ getOk
                                  THEN notionPages[CHOOSE p \in found :
                                                      \A q \in found : p <= q].gid
                                  ELSE None
             google_updated == google_event_id # None /\ service
         IN pending' = [pending EXCEPT !.callback = FALSE,
                                       !.notification = @ \/ google_updated]
    /\ UNCHANGED <<loopFrame, createPc, reconVars>>

\* the chat platform dispatches an update of the member's event for the
\* PATCH sync_to_discord has sent to it
EchoedUpdate(calls, ret) ==
    /\ ret # None /\ ret = createPc.did
    /\ \E k \in 1..Len(calls) : calls[k] = Call("discord.update", createPc.did)

\* the notification reaches the webhook service outside the cooldown: the pass
\* lists the patched event and upserts it
NotifiedPass ==
    /\ pending.notification
    /\ upsert_event
    /\ pending' = [pending EXCEPT !.notification = FALSE,
                                  !.callback = @ \/ EchoedUpdate(reconCalls', reconLast'.ret)]
    /\ UNCHANGED <<loopFrame, createPc>>

\* the notification reaches the webhook service within the cooldown of the
\* last pass: run_sync_guarded answers skipped and nothing is read
NotificationSkipped ==
    /\ pending.notification
    /\ pending' = [pending EXCEPT !.notification = FALSE, !.skipped = TRUE]
    /\ UNCHANGED <<loopFrame, createPc, reconVars>>

\* ---- the member's event from its creation to the echoes of one edit
NextLoop ==
    \/ ReconStartup /\ UNCHANGED outsideRecon
    \/ MemberCreatesEvent
    \/ CreateInsertsCalendar
    \/ CreateAddsExternal
    \/ CreateAddsInternal
    \/ ~pending.edited /\ PassForInsertedEvent
    \/ MemberEditsEvent
    \/ UpdateCallbackOfMember
    \/ NotifiedPass
    \/ NotificationSkipped

\* a dispatched callback is handled, and a delivered notification is answered
SpecLoop ==
    /\ Init /\ [][NextLoop]_vars
    /\ WF_vars(UpdateCallbackOfMember)
    /\ WF_vars(NotifiedPass \/ NotificationSkipped)

\* ---- the reconciler on the unchanged event across a restart that loses the
\* map files
NextRescan ==
    \/ ReconStartup /\ UNCHANGED outsideRecon
    \/ ReconTick /\ UNCHANGED outsideRecon
    \/ MapsLost /\ UNCHANGED outsideRecon
    \/ upsert_event /\ UNCHANGED outsideRecon

SpecRescan == Init /\ [][NextRescan]_vars

\* the date property of a page as the sweep reads it: the end the reconciler
\* wrote (build_notion_date), else the start
SweepDateOf(p) ==
    IF notionPages[p].db # "internal" THEN [kind |-> "none", end |-> NoTime]
    ELSE [kind |-> "aware",
          end |-> IF notionPages[p].content # NoTime THEN notionPages[p].content
                                                      ELSE EventStart]

\* the bot's daily task runs delete_finished_events_for_db on the internal
\* data base (the query does not list archived pages)
RetentionSweep ==
    /\ reconPc = "ready"
    /\ LET listed == {p \in PageIds : ~notionPages[p].archived}
           swept == delete_finished_events_for_db(
                        [p \in PageIds |-> IF p \in listed THEN SweepDateOf(p)
                                                          ELSE [kind |-> "none", end |-> NoTime]],
                        1, reconNow).archived
       IN /\ swept # {}
          /\ notionPages' = [p \in PageIds |->
                               IF p \in swept THEN [notionPages[p] EXCEPT !.archived = TRUE]
                                              ELSE notionPages[p]]
    /\ UNCHANGED <<reconPc, config, reconNow, gevent, guildEvents, gcal_notion_map,
                   gcal_discord_map, reconHistory>>

\* ---- the reconciler, the retention sweep and a restart that loses the map files
NextRetention ==
    \/ ReconStartup /\ UNCHANGED outsideRecon
    \/ ReconTick /\ UNCHANGED outsideRecon
    \/ RetentionSweep /\ UNCHANGED outsideRecon
    \/ MapsLost /\ UNCHANGED outsideRecon
    \/ upsert_event /\ UNCHANGED outsideRecon

SpecRetention == Init /\ [][NextRetention]_vars

\* ---- the reconciler on an event that may lose its start, the clock standing still
NextMalformed ==
    \/ ReconStartup /\ UNCHANGED outsideRecon
    \/ EventEdit /\ UNCHANGED outsideRecon
    \/ StartRemoved /\ UNCHANGED outsideRecon
    \/ upsert_event /\ UNCHANGED outsideRecon

SpecMalformed == Init /\ [][NextMalformed]_vars

\* sync_calendar lines 1256-1258, called at run_sync_guarded line 1310: the
\* thread that runs the pass calls upsert_event, which writes the maps
SyncCalendarUpserts(t) ==
    /\ pc[t] = "sync_calendar"
    /\ upsert_event
    /\ UNCHANGED outsideRecon

\* ---- request threads whose passes write the correlation maps
NextLocked ==
    \/ ReconStartup /\ UNCHANGED outsideRecon
    \/ \E t \in Threads : ManualRequest(t)
    \/ \E t \in Threads : GuardCooldown(t)
    \/ \E t \in Threads : GuardAcquire(t)
    \/ \E t \in Threads : SyncCalendarUpserts(t)
    \/ \E t \in Threads : SyncCalendarRuns(t)
    \/ \E t \in Threads : SetLastRun(t)
    \/ \E t \in Threads : ReleaseLock(t)
    \/ \E t \in Threads : Respond(t)

SpecLocked == Init /\ [][NextLocked]_vars

\* sync_calendar lines 1248-1253 and 1263-1270 inside the guarded run: the
\* thread that runs the pass lists the calendar, then saves the cursor
SyncCalendarLists(t) ==
    /\ pc[t] = "sync_calendar"
    /\ SyncList

SyncCalendarSaves(t) ==
    /\ pc[t] = "sync_calendar"
    /\ SyncSave

\* ---- request threads whose passes move the cursor and write the maps
NextSkip ==
    \/ ReconStartup /\ UNCHANGED outsideRecon
    \/ \E t \in Threads : ManualRequest(t)
    \/ \E t \in Threads : GuardCooldown(t)
    \/ \E t \in Threads : GuardAcquire(t)
    \/ \E t \in Threads : SyncCalendarUpserts(t)
    \/ \E t \in Threads : SyncCalendarRuns(t)
    \/ \E t \in Threads : SetLastRun(t)
    \/ \E t \in Threads : ReleaseLock(t)
    \/ \E t \in Threads : Respond(t)
    \/ \E t \in Threads : SyncCalendarLists(t)
    \/ \E t \in Threads : SyncCalendarSaves(t)

SpecSkip == Init /\ [][NextSkip]_vars

\* ---- the reconciler on an event whose page may leave its reach
NextUnshared ==
    \/ ReconStartup /\ UNCHANGED outsideRecon
    \/ StartRemoved /\ UNCHANGED outsideRecon
    \/ PageUnshared /\ UNCHANGED outsideRecon
    \/ upsert_event /\ UNCHANGED outsideRecon

SpecUnshared == Init /\ [][NextUnshared]_vars

\* ---- parse_google_event_times on every event of the bounded input space
NextTimes == ParseTimesCall

SpecTimes == Init /\ [][NextTimes]_vars

\* ---- the text fields of every event of the bounded input space
NextFields == BuildFieldsCall

SpecFields == Init /\ [][NextFields]_vars

\* ---- the retention sweep over every content of the two data bases
NextSweep == SweepCall

SpecSweep == Init /\ [][NextSweep]_vars

(***************************************************************************)
(* Claims                                                                  *)
(***************************************************************************)

\* C1: under every interleaving of webhook and manual triggers at most one
\* thread is executing sync_calendar, and it is the holder of the one lock
\* both trigger kinds pass through.
C1_SingleFlight ==
    /\ Cardinality({t \in Threads : pc[t] = "sync_calendar"}) <= 1
    /\ (\E t \in Threads : pc[t] \in {"sync_calendar", "set_last_run", "release"})
          => sync_lock

\* a webhook-triggered pass is running while a manual trigger is turned away
C1_Witness ==
    \E t, u \in Threads :
        /\ pc[t] = "sync_calendar" /\ source[t] = "webhook"
        /\ pc[u] = "respond" /\ source[u] = "manual"
        /\ result[u] = <<TRUE, "in_progress">>

\* C2: whenever a pass starts (the lock is taken and sync_calendar entered),
\* at least SYNC_COOLDOWN_SECONDS have elapsed since the previous pass start.
C2_CooldownBetweenStarts ==
    [][(sync_lock' /\ ~sync_lock /\ lastStart # NoTime)
          => clock' - lastStart >= SYNC_COOLDOWN_SECONDS]_vars

\* C9: once N+1 distinct tokens have been registered in a row (N the capacity),
\* the first of them is reported as not seen and each of the last N as seen.
LastRegistered(n) == LastN(regHistory, n)
C9_Premise ==
    /\ Len(regHistory) >= DedupeCapacity + 1
    /\ Cardinality(SeqToSet(LastRegistered(DedupeCapacity + 1))) = DedupeCapacity + 1
C9_DedupBound ==
    C9_Premise =>
        /\ ~AlreadyRegistered(LastRegistered(DedupeCapacity + 1)[1], processed_message_set)
        /\ \A i \in 2..(DedupeCapacity + 1) :
              AlreadyRegistered(LastRegistered(DedupeCapacity + 1)[i], processed_message_set)

C9_Witness == C9_Premise /\ Len(regHistory) = DedupeCapacity + 1

\* C10: a webhook delivery whose key is in the recency set when it is checked
\* goes straight to its answer, which is 204, without entering run_sync_guarded;
\* the delivery that is the first to reach the guard with its key is not
\* reported as a duplicate.
C10_DuplicateSkipped ==
    \A t \in Threads :
        /\ seenAtCheck[t] =>
              /\ pc[t] = "respond"
              /\ result[t] = <<TRUE, "duplicate">>
              /\ StatusOf(source[t], result[t]) = 204
        /\ firstDelivery[t] => result[t] # <<TRUE, "duplicate">>

\* a duplicate is being answered while the recency list is full
C10_Witness ==
    \E t \in Threads :
        /\ seenAtCheck[t] /\ pc[t] = "respond"
        /\ Len(processed_message_ids) = DedupeCapacity

\* a pass returns: sync_calendar reaches its end and save_sync_state succeeded
PassReturns == pollPc = "listed" /\ pollPc' = "idle" /\ stateDirWritable

\* C7 (as claimed): the cursor saved at the end of any pass is not earlier than
\* the cursor loaded at its start minus the two-minute margin.
C7_AnyPass ==
    [][(PassReturns /\ updated_min # NoTime)
          => sync_state' >= updated_min - SAFETY_MARGIN_MINUTES]_vars

\* C7 (amended): the same, for every pass whose listing was not answered by the
\* full listing after a 410.
C7_NoFallbackPass ==
    [][(PassReturns /\ updated_min # NoTime /\ ~fellBack)
          => sync_state' >= updated_min - SAFETY_MARGIN_MINUTES]_vars

\* a pass without fallback is about to save a cursor exactly the margin below
\* the one it loaded
C7_Witness ==
    /\ pollPc = "listed" /\ stateDirWritable /\ ~fellBack /\ updated_min # NoTime
    /\ events # <<>>
    /\ NextCursor(events) = updated_min - SAFETY_MARGIN_MINUTES

\* C8 (as claimed): every pass that returns has saved its next cursor, and a
\* pass without fallback never saves a cursor below the one saved before.
C8_NeverDecreases ==
    [][PassReturns
          => /\ sync_state' = NextCursor(events)
             /\ (~fellBack /\ sync_state # NoTime) => sync_state' >= sync_state]_vars

\* C8 (amended): every pass that returns has saved its next cursor, and a pass
\* without fallback never saves a cursor more than the two-minute margin below
\* the one saved before.
C8_DecreasesWithinMargin ==
    [][PassReturns
          => /\ sync_state' = NextCursor(events)
             /\ (~fellBack /\ sync_state # NoTime)
                   => sync_state' >= sync_state - SAFETY_MARGIN_MINUTES]_vars

\* a pass without fallback is about to save a cursor below the saved one
C8_Witness ==
    /\ pollPc = "listed" /\ stateDirWritable /\ ~fellBack /\ sync_state # NoTime
    /\ NextCursor(events) < sync_state

\* C3: whenever a scheduled-event callback (create, update or delete) has
\* handled an event whose creator is the bot's own user, the callback made no
\* calendar call and no document-store call.
C3_LoopPrevention ==
    (/\ botLast.handler \in {"create", "update", "delete"}
     /\ botLast.user = BotUserId
     /\ (botLast.creator_id = BotUserId \/ botLast.creator = BotUserId))
    => botCalls \cap (CalendarCalls \cup NotionCalls) = {}

\* the delete callback has skipped a bot-created event that is known only
\* through its creator object
C3_Witness ==
    /\ botLast.handler = "delete"
    /\ botLast.user = BotUserId
    /\ botLast.creator_id = NoId
    /\ botLast.creator = BotUserId
    /\ \E e \in DEventIds : discordEvents[e].state = "deleted"
    /\ botCalls = {}

CreateOps == {"notion.create", "discord.create"}
UpdateOps == {"notion.update", "discord.update"}
CallsOf(ops) == {k \in 1..Len(reconCalls) : reconCalls[k].op \in ops}
CallsTo(op, target) ==
    {k \in 1..Len(reconCalls) : reconCalls[k].op = op /\ reconCalls[k].target = target}

\* C4: when upsert_event runs on an active event that a run without any
\* failed call has already reconciled and that was not edited since, and
\* again no call fails, the run creates no record and leaves every page,
\* every scheduled event and both correlation maps as they were.
C4_SecondRunIdempotent ==
    [][(/\ gevent.status = "confirmed"
        /\ gevent' = gevent
        /\ cleanRuns >= 1
        /\ cleanRuns' = 2
        /\ reconCalls' # <<>>)
       => /\ notionPages' = notionPages
          /\ guildEvents' = guildEvents
          /\ gcal_notion_map' = gcal_notion_map
          /\ gcal_discord_map' = gcal_discord_map
          /\ \A k \in 1..Len(reconCalls') : reconCalls'[k].op \notin CreateOps]_vars

\* the second run in a row has updated an internal page, an external page and
\* a scheduled event
C4_Witness ==
    /\ cleanRuns = 2
    /\ reconLast.status = "confirmed"
    /\ reconLast.page # NoPageId
    /\ reconLast.external_page # NoPageId
    /\ reconLast.did # None
    /\ CallsOf({"discord.update"}) # {}

C6_StaleEventNoCreate ==
    reconLast.stale => CallsOf(CreateOps) = {}

InPass == {"sync_calendar", "set_last_run", "release"}

\* C11: a trigger that tries the sync lock while another pass holds it is not
\* made to wait (the attempt can always be taken), gets (True, "in_progress")
\* at once without touching the lock, and from then on only answers: it never
\* enters a pass.
C11_DroppedNotQueued ==
    /\ [](\A t \in Threads : pc[t] = "acquire" => ENABLED GuardAcquire(t))
    /\ [][\A t \in Threads :
            /\ (pc[t] = "acquire" /\ sync_lock /\ pc'[t] # "acquire")
                  => /\ pc'[t] = "respond"
                     /\ result'[t] = <<TRUE, "in_progress">>
                     /\ sync_lock'
            /\ result[t] = <<TRUE, "in_progress">>
                  => /\ pc[t] = "respond"
                     /\ pc'[t] \in {"respond", "idle"}]_vars

\* one trigger has been dropped with in_progress while the other is in its pass
C11_Witness ==
    \E t, u \in Threads :
       /\ t # u
       /\ pc[t] = "respond" /\ result[t] = <<TRUE, "in_progress">>
       /\ pc[u] = "sync_calendar" /\ sync_lock

\* C16: the sync lock is held only while some trigger is between its
\* successful acquire and its release; once run_sync_guarded has returned or
\* raised for every trigger, the lock is free, so the next attempt succeeds.
C16_LockFreedAfterReturn ==
    /\ sync_lock => \E t \in Threads : pc[t] \in InPass
    /\ (\A t \in Threads : pc[t] \notin InPass) => TryAcquire(sync_lock)

\* sync_calendar raised, run_sync_guarded has been left, and the lock is free
C16_Witness ==
    /\ \E t \in Threads : pc[t] = "respond" /\ result[t] = <<FALSE, "raised">>
    /\ \A t \in Threads : pc[t] \notin InPass
    /\ ~sync_lock

\* C17: a trigger is answered with a non-success status only when its own pass
\* ran and failed (returned False or raised); a trigger skipped for cooldown or
\* in_progress is answered 204 by the webhook endpoint and 200 by the manual one.
C17_FailureOnlyForFailedPass ==
    \A t \in Threads :
       pc[t] = "respond" =>
          LET st == StatusOf(source[t], result[t])
          IN /\ st \notin {200, 204}
                  => result[t] \in {<<FALSE, "done">>, <<FALSE, "raised">>}
             /\ result[t][2] \in {"cooldown", "in_progress"}
                  => st = IF source[t] = "webhook" THEN 204 ELSE 200

\* a manual trigger skipped for in_progress beside a webhook trigger skipped
\* for cooldown
C17_Witness ==
    \E t, u \in Threads :
       /\ pc[t] = "respond" /\ source[t] = "manual"
       /\ result[t] = <<TRUE, "in_progress">>
       /\ pc[u] = "respond" /\ source[u] = "webhook"
       /\ result[u] = <<TRUE, "cooldown">>

\* C12: every calendar change whose notification was delivered is eventually
\* seen by the listing of a pass, also when the trigger of that notification
\* was skipped for cooldown or in_progress.
C12_NoWorkLost == unprocessed ~> ~unprocessed

\* C13: when the listing call fails for another reason than an expired
\* cursor, the pass is reported failed: sync_calendar returns failure and both
\* HTTP endpoints answer with a non-success status.
C13_ListingFailureFailsPass ==
    (pollPc = "listed" /\ listFailed)
        => /\ ~SyncResult[1]
           /\ \A src \in {"webhook", "manual"} : StatusOf(src, SyncResult) \notin {200, 204}

\* C14: an event whose reconciliation failed in a pass, and which is not
\* modified again, is in the batch of the next pass: the cursor the pass saves
\* never moves past it, so the bound the next listing sends still covers it.
C14_FailedEventListedAgain ==
    (pollPc = "listed" /\ stateDirWritable)
        => \A i \in 1..Len(upserted) :
              upserted[i].outcome = "raise"
                  => events[i].updated >= EffectiveUpdatedMin(NextCursor(events))

\* C15: the reconciler is invoked exactly once for every event of the fetched
\* batch, in the order of the batch, also after it raised for earlier events.
C15_EveryEventUpserted ==
    pollPc = "listed"
        => /\ Len(upserted) = Len(events)
           /\ \A i \in 1..Len(events) : upserted[i].id = events[i].id

C15_Witness ==
    /\ pollPc = "listed"
    /\ Len(events) = 2
    /\ Len(upserted) = 2
    /\ upserted[1].outcome = "raise"
    /\ upserted[2].outcome = "ok"

FirstRunLists == pollPc = "idle" /\ pollPc' = "listed" /\ sync_state = NoTime /\ ~listFailed'
InBatch(evs, g) == \E i \in 1..Len(evs) : evs[i] = ItemOf(g)

C20_MapsRederived ==
    [][(/\ lostMaps # NoLoss
        /\ lostMaps' = NoLoss
        /\ gevent.status = "confirmed"
        /\ gevent' = gevent
        /\ ~reconLast'.failed)
       => /\ \A k \in 1..Len(reconCalls') : reconCalls'[k].op \notin CreateOps
          /\ gcal_notion_map' = lostMaps.notion
          /\ gcal_discord_map' = lostMaps.discord]_vars

\* one call of upsert_event on the unchanged event
UpsertStep ==
    /\ reconPc = "ready" /\ reconPc' = "ready"
    /\ reconNow' = reconNow /\ gevent' = gevent
    /\ \A p \in PageIds : Fetchable(p) => notionPages'[p].db = notionPages[p].db

\* C21: for an active event with a start, no end, its synthesised end still
\* ahead and no mirror or correlation entry, one pass without a failed call
\* makes exactly one create call on the internal data base and exactly one on
\* the chat platform, the scheduled event ends at start + 1 hour, and both
\* correlation maps name the new records.
C21_FirstPassCreatesBoth ==
    [][(/\ UpsertStep
        /\ config.discord
        /\ gevent.status = "confirmed"
        /\ gevent.end_dt = NoTime
        /\ EventStart + 1 > reconNow
        /\ NoMirror
        /\ gcal_notion_map = NoLoss.notion
        /\ gcal_discord_map = None
        /\ ~reconLast'.failed)
       => /\ Cardinality({k \in 1..Len(reconCalls') :
                             reconCalls'[k] = Call("notion.create", "internal")}) = 1
          /\ Cardinality({k \in 1..Len(reconCalls') :
                             reconCalls'[k].op = "discord.create"}) = 1
          /\ Len(guildEvents') = Len(guildEvents) + 1
          /\ guildEvents'[Len(guildEvents')].alive
          /\ guildEvents'[Len(guildEvents')].scheduled_end_time = EventStart + 1
          /\ gcal_discord_map' = DiscordIds[Len(guildEvents')]
          /\ gcal_notion_map'.internal \in (1..Len(notionPages')) \ PageIds
          /\ notionPages'[gcal_notion_map'.internal].db = "internal"
          /\ ~notionPages'[gcal_notion_map'.internal].archived]_vars

C21_Witness ==
    /\ reconLast.status = "confirmed" /\ ~reconLast.failed
    /\ reconLast.page = NoPageId /\ reconLast.did = None
    /\ gevent.end_dt = NoTime
    /\ CallsTo("notion.create", "internal") # {}
    /\ CallsOf({"discord.create"}) # {}
    /\ guildEvents # <<>>
    /\ guildEvents[Len(guildEvents)].scheduled_end_time = EventStart + 1
    /\ gcal_discord_map = DiscordIds[Len(guildEvents)]
    /\ gcal_notion_map.internal # NoPageId

DiscordWrites == {"discord.create", "discord.update", "discord.delete"}

\* C22: a pass on a cancelled event makes no create call in any store and no
\* update of a scheduled event, and when no scheduled event could be resolved
\* it makes no delete call on the chat platform either; a cancelled event
\* stays cancelled, so this covers every later pass.
C22_CancelledNeverCreates ==
    /\ [](reconLast.status = "cancelled"
             => /\ CallsOf(CreateOps \cup {"discord.update"}) = {}
                /\ reconLast.did = None => CallsOf(DiscordWrites) = {})
    /\ [][(UpsertStep /\ gevent.status = "cancelled")
             => /\ Len(notionPages') = Len(notionPages)
                /\ Len(guildEvents') = Len(guildEvents)]_vars

\* the marker scan for a cancelled event found nothing, and the chat platform
\* was left alone
C22_Witness ==
    /\ reconLast.status = "cancelled"
    /\ config.discord
    /\ reconLast.did = None
    /\ CallsOf({"discord.list"}) # {}
    /\ CallsOf(DiscordWrites) = {}

\* C23: when the registration of a new token in the duplicate guard returns,
\* the persisted record equals the in-memory content, also when the write to
\* durable storage fails.
C23_PersistedEqualsMemory ==
    [][Len(regHistory') = Len(regHistory) + 1
          => dedupeFile' = processed_message_ids']_vars

\* C24: parse_google_event_times returns an end strictly after the start
\* whenever the start is present: start + 1 hour when the event's end is
\* missing or not after its start, the event's own end otherwise.
C24_EndAfterStart ==
    LET s == parse_part(timesIn.start, FALSE)
        e == parse_part(timesIn.end, TRUE)
    IN timesOut.start_dt # NoTime
          => /\ timesOut.start_dt = s
             /\ timesOut.end_dt > timesOut.start_dt
             /\ (e = NoTime \/ e - s <= 0) => timesOut.end_dt = s + 1
             /\ (e # NoTime /\ e - s > 0) => timesOut.end_dt = e

\* an end equal to the start was replaced, and an end after the start is kept
C24_Witness ==
    /\ timesIn.start.dateTime = 1
    /\ timesIn.end.dateTime = 1
    /\ timesOut = [start_dt |-> 1, end_dt |-> 2]

\* C25: a pass on an active event without a start makes no create call and
\* no update call, on the document store or on the chat platform, and leaves
\* pages and scheduled events as they were.
C25_NoStartDropped ==
    [][(UpsertStep /\ gevent.status = "confirmed" /\ gevent.start = NoTime)
          => /\ \A k \in 1..Len(reconCalls') :
                   reconCalls'[k].op \notin CreateOps \cup UpdateOps
             /\ notionPages' = notionPages
             /\ guildEvents' = guildEvents]_vars

\* the event lost its start after it was mirrored, and a pass without failure
\* found its internal page and left it alone
C25_Witness ==
    /\ gevent.status = "confirmed" /\ gevent.start = NoTime
    /\ cleanRuns >= 1
    /\ reconLast.page # NoPageId
    /\ guildEvents # <<>>
    /\ CallsOf(CreateOps \cup UpdateOps) = {}

\* C26: every title, description and location written downstream is at most
\* the store's maximum field length: the chat-platform payload within
\* DISCORD_NAME_LIMIT, DISCORD_DESCRIPTION_LIMIT and DISCORD_LOCATION_LIMIT,
\* the document-store fields within the document store's limit.
C26_FieldsClipped ==
    /\ discordPayload.name <= DISCORD_NAME_LIMIT
    /\ discordPayload.description <= DISCORD_DESCRIPTION_LIMIT
    /\ discordPayload.location <= DISCORD_LOCATION_LIMIT
    /\ notionProps.name <= NotionTextLimit
    /\ notionProps.content <= NotionTextLimit
    /\ notionProps.location <= NotionTextLimit

\* C27: a pass lists the guild's scheduled events only when the marker mode
\* is enabled and neither the fetched page (for a cancelled event: nor the
\* external page) nor the correlation map gave a chat event id; with the mode
\* disabled no listing call is ever made.
C27_ListingOnlyForMarkerScan ==
    /\ [](~config.marker => CallsOf({"discord.list"}) = {})
    /\ [][(UpsertStep /\ \E k \in 1..Len(reconCalls') : reconCalls'[k].op = "discord.list")
             => /\ config.marker
                /\ MessageIdOf(reconLast'.page) = None
                /\ gevent.status = "cancelled"
                      => MessageIdOf(reconLast'.external_page) = None
                /\ gcal_discord_map = None]_vars

\* the scan of an active event found nothing and a scheduled event was created
C27_Witness ==
    /\ config.marker
    /\ reconLast.status = "confirmed"
    /\ CallsOf({"discord.list"}) # {}
    /\ CallsOf({"discord.create"}) # {}
    /\ gcal_discord_map # None

\* C28: the retention sweep archives a page of the external data base
\* exactly when its start date is 30 or more days before today, and a page of
\* the internal data base exactly when its end time (its start time when it
\* has no end) is at or before now; pages without a date are never archived.
C28_SweepArchivesExactly ==
    sweepIn # NoSweep
        => /\ \A i \in 1..Len(sweepIn.external) :
                 i \in sweepOut.external
                     <=> /\ sweepIn.external[i] # NoTime
                         /\ sweepIn.today - sweepIn.external[i] >= 30
           /\ \A i \in 1..Len(sweepIn.internal) :
                 i \in sweepOut.internal
                     <=> /\ sweepIn.internal[i].kind # "none"
                         /\ sweepIn.internal[i].end <= sweepIn.now

\* the calls of the run just made hold a query of the internal data base
QueriedInternal(calls) ==
    \E k \in 1..Len(calls) : calls[k] = Call("notion.query", "internal")

\* a page the query of the internal data base lists for the event
ListedInternal(p) ==
    /\ p \in PageIds
    /\ notionPages[p].db = "internal"
    /\ notionPages[p].gid = GEventId
    /\ ~notionPages[p].archived

\* C29: when the page id stored in the correlation map for a calendar event
\* cannot be fetched, the reconciler removes that entry, queries the document
\* store by the calendar event id, and stores the id of the page found, if
\* any; after the resolution step a correlation entry for the event exists
\* only if it names a page that was just fetched or found (a run that goes on
\* to create the missing page stores the id of the new page).
C29_EntryNamesResolvedPage ==
    [][UpsertStep /\ gevent.status # "cancelled"
         => LET old == gcal_notion_map.internal
                new == gcal_notion_map'.internal
                found == reconLast'.page
                queried == QueriedInternal(reconCalls')
                created == HasDateProp(gevent) /\ new \notin PageIds
            IN /\ old # NoPageId /\ queried /\ found # NoPageId => new = found
               /\ old # NoPageId /\ queried /\ found = NoPageId
                    => new = NoPageId \/ created
               /\ new # NoPageId
                    => \/ ~queried /\ new = old /\ Fetchable(old)
                       \/ queried /\ new = found /\ ListedInternal(found)
                       \/ created]_vars

\* a run without start found the mapped page unfetchable and stored the page
\* the query found
C29_Witness ==
    /\ reconPc = "ready"
    /\ gevent.start = NoTime
    /\ reconLast.status = "confirmed"
    /\ \E k \in 1..Len(reconCalls) : reconCalls[k].op = "notion.get"
    /\ QueriedInternal(reconCalls)
    /\ gcal_notion_map.internal # NoPageId

\* a run without start found the mapped page unfetchable and no page by the
\* query, and left no entry
C29_WitnessRemoved ==
    /\ reconPc = "ready"
    /\ gevent.start = NoTime
    /\ reconLast.status = "confirmed"
    /\ \E k \in 1..Len(reconCalls) : reconCalls[k].op = "notion.get"
    /\ QueriedInternal(reconCalls)
    /\ gcal_notion_map.internal = NoPageId

\* the thread is between _sync_lock.acquire and _sync_lock.release
InLockedRegion(t) == pc[t] \in {"sync_calendar", "set_last_run", "release"}

\* C30: every mutation of the correlation maps (calendar id to chat-event id,
\* calendar id to document-page id) is performed by a thread that holds the
\* sync lock, and no other thread is inside the locked region at that moment,
\* so no two threads interleave read-then-write sequences on the maps.
C30_MapsWrittenUnderLock ==
    [][gcal_notion_map' # gcal_notion_map \/ gcal_discord_map' # gcal_discord_map
         => /\ sync_lock
            /\ \E t \in Threads :
                  /\ pc[t] = "sync_calendar"
                  /\ \A u \in Threads \ {t} : ~InLockedRegion(u)]_vars

\* a pass has written both maps and holds the lock while the other thread's
\* request has been refused
C30_Witness ==
    /\ sync_lock
    /\ gcal_notion_map.internal # NoPageId
    /\ gcal_discord_map # None
    /\ \E t \in Threads :
          /\ pc[t] = "sync_calendar"
          /\ \E u \in Threads \ {t} :
                pc[u] = "respond" /\ result[u] = <<TRUE, "in_progress">>

\* the calls of the run just made hold op
Called(calls, op) == \E k \in 1..Len(calls) : calls[k].op = op

\* sync_to_discord called discord_update_event on the resolved id and got None
UpdateFailed ==
    /\ reconLast'.status # "cancelled"
    /\ Called(reconCalls', "discord.update")
    /\ reconLast'.ret = None

\* C31 as stated: when a chat event id is resolved for an active calendar
\* event and the update call on it fails, no create call is issued in that
\* pass and the stored calendar-to-chat mapping is left unchanged.
C31_FailedUpdateLeavesMap ==
    [][UpsertStep /\ UpdateFailed
         => /\ ~Called(reconCalls', "discord.create")
            /\ gcal_discord_map' = gcal_discord_map]_vars

\* C31 amended: after a failed update no create call is issued, and the
\* stored mapping is the one before the pass unless the id was discovered by
\* the marker scan of that pass, which has stored the discovered id already.
C31_FailedUpdateNoCreate ==
    [][UpsertStep /\ UpdateFailed
         => /\ ~Called(reconCalls', "discord.create")
            /\ gcal_discord_map' =
                 IF Called(reconCalls', "discord.list") THEN reconLast'.did
                                                          ELSE gcal_discord_map]_vars

\* a pass whose update of the mapped scheduled event failed
C31_Witness ==
    /\ reconPc = "ready"
    /\ reconLast.status = "confirmed"
    /\ Called(reconCalls, "discord.update")
    /\ reconLast.ret = None
    /\ reconLast.did # None
    /\ gcal_discord_map = reconLast.did

\* C32: when the calendar listing fails, the saved sync cursor is not
\* advanced: the cursor after the failed pass equals the cursor before it, so
\* changes made before the failure are still fetched by a later pass.
C32_FailedListingKeepsCursor ==
    [][pollPc = "listed" /\ listFailed /\ pollPc' = "idle"
         => sync_state' = sync_state]_vars

LiveGuildEvents == {i \in 1..Len(guildEvents) : guildEvents[i].alive}
LivePages(db) == {p \in PageIds : notionPages[p].db = db /\ ~notionPages[p].archived}

\* C33: when a member creates a chat-platform event, the create handler and
\* the pass for the calendar event it inserts may interleave arbitrarily; in
\* every interleaving, with every call succeeding, the system ends with
\* exactly one chat-platform event and exactly one internal page for the event.
C33_OneMirrorEach ==
    (createPc.at = "done" /\ ~createPc.failed /\ reconLast.status = "confirmed")
        => /\ Cardinality(LiveGuildEvents) = 1
           /\ Cardinality(LivePages("internal")) = 1

\* C39: an event whose name contains the excluded word never gets a page in
\* the external data base: neither the chat-platform callbacks nor a pass for
\* the calendar event mirrored from it creates an external page.
C39_IgnoredNeverExternal ==
    createPc.ignored => \A p \in PageIds : notionPages[p].db # "external"

\* C40: with the marker mode enabled, the description sent to the chat platform
\* for a calendar event always holds the complete origin marker
\* [gcal-id:<calendar id>], for every description length: the text sent reaches
\* to the last character of the marker, which stands at the end of the text built.
C40_MarkerComplete ==
    clipIn.marker
        => discordPayload.description
             >= (IF clipIn.description > 0
                   THEN clipIn.description + SeparatorLen + MarkerLen
                   ELSE MarkerLen)

\* C35: after any sequence of load_recent_message_ids (at the start of the
\* process) and register_message_id calls, the membership set holds exactly
\* the tokens of the FIFO, the FIFO holds no token twice, and its length
\* never exceeds its capacity.
C35_SetMirrorsFifo ==
    /\ processed_message_set
         = {processed_message_ids[i] : i \in 1..Len(processed_message_ids)}
    /\ \A i, j \in 1..Len(processed_message_ids) :
          processed_message_ids[i] = processed_message_ids[j] => i = j
    /\ Len(processed_message_ids) <= DedupeCapacity

\* the process has just restarted and loaded a full FIFO from the state file,
\* written after a registration that evicted the oldest token
C35_Witness ==
    /\ regHistory = <<>>
    /\ Len(processed_message_ids) = DedupeCapacity
    /\ processed_message_ids[1] # DedupeKey("ch", 1)

\* C36: when the same notification token is delivered by two concurrent
\* webhook requests, at most one of them is reported as not yet seen and
\* proceeds to the run coordinator: never have two requests with the same
\* token both passed the membership test of register_message_id as unseen.
C36_OneUnseenPerToken ==
    \A t, u \in Threads :
        (t # u /\ pc[t] = "dedupe_add" /\ pc[u] = "dedupe_add" /\ key[t] # NoKey)
            => key[t] # key[u]

\* what a pass works on: the saved cursor, the correlation maps, the last-run
\* timestamp, the stores behind the collaborators and the calls made
PassEffects == <<sync_state, gcal_notion_map, gcal_discord_map, sync_last_run_epoch,
                 notionPages, guildEvents, reconCalls, events>>

Skipped(res) == res = <<TRUE, "cooldown">> \/ res = <<TRUE, "in_progress">>

\* C37: a trigger that is skipped (cooldown or in-progress) makes no
\* collaborator call and leaves the sync cursor, the correlation maps and the
\* last-run timestamp unchanged: the step of run_sync_guarded that decides
\* the skip and the answer that follows change none of them, and the thread
\* has not entered the locked region.
C37_SkipChangesNothing ==
    [][\A t \in Threads :
          /\ (Skipped(result'[t]) /\ ~Skipped(result[t]))
                => /\ PassEffects' = PassEffects
                   /\ pc[t] \in {"guard", "acquire"}
                   /\ pc'[t] = "respond"
          /\ (Skipped(result[t]) /\ pc'[t] # pc[t])
                => /\ PassEffects' = PassEffects
                   /\ pc[t] = "respond"]_vars

\* a trigger has been skipped as in-progress while the pass of the other
\* thread, which has written the maps and listed the calendar, holds the lock
C37_Witness ==
    \E t \in Threads :
        /\ pc[t] = "respond"
        /\ result[t] = <<TRUE, "in_progress">>
        /\ gcal_notion_map.internal # NoPageId
        /\ pollPc = "listed"

\* C34: after a single edit of a member's scheduled event, with no further
\* external change, the writes of the two services die out: from some point
\* on no callback and no calendar notification awaits a handler.
Quiet == ~pending.callback /\ ~pending.notification

C34_WritesDieOut == <>[]Quiet

\* C38: once the retention sweep has archived the internal page of an event
\* because its end time passed, no later pass for that unchanged active
\* calendar event creates a new internal page for it.
C38_NoRecreateAfterSweep ==
    [][(gevent.status = "confirmed" /\ gevent' = gevent
           /\ \E p \in PageIds : notionPages[p].db = "internal" /\ notionPages[p].archived)
         => \A q \in 1..Len(notionPages') :
               notionPages'[q].db = "internal" => q \in PageIds]_vars

====
